---------------------------- MODULE Spec2Model ----------------------------
(***************************************************************************)
(* A model of mindat-rs: the request executor of MindatClient              *)
(* (src/src/client.rs), the query builders (src/src/models/*.rs) and the   *)
(* mapping of a query model to the parameters of the issued request.       *)
(*                                                                         *)
(* Strings that the code inspects byte by byte (the token, which becomes a  *)
(* header value) are sequences of byte codes; strings the code only passes  *)
(* along are TLA+ strings.                                                  *)
(***************************************************************************)
EXTENDS Integers, Sequences, FiniteSets, TLC

VARIABLES
    token,      \* MindatClient.token : Option<String>
    base_url,   \* MindatClient.base_url : Url
    pc,         \* where the current executor call is: idle, awaiting, done
    request,    \* the HTTP request the current call has sent (None before)
    response,   \* the HTTP response the current call has received
    result,     \* what the current call returned: Result<T, MindatError>
    nsent,      \* HTTP requests sent by the current call
    ncalls,     \* executor calls started so far
    family,     \* which query model is being built
    query,      \* the query model (GeomaterialsQuery, LocalitiesQuery, ...)
    nset,       \* builder setter calls applied to the query model
    envelope,   \* the pagination envelope a caller holds (None before one is decoded)
    raw,        \* the raw JSON value handed to a decoder (None before)
    returned,   \* the last library call that returned: its name, argument, value
    client,     \* AppState.client of the GUI : Option<Arc<MindatClient>>
    lock,       \* the RwLock around it: its holders and its queue of waiters
    task        \* the GUI command each task is running, and where it is

vars == <<token, base_url, pc, request, response, result, nsent, ncalls,
          family, query, nset, envelope, raw, returned, client, lock, task>>

execVars == <<token, base_url, pc, request, response, result, nsent, ncalls>>
queryVars == <<family, query, nset>>
libVars == <<envelope, raw, returned>>
guiVars == <<client, lock, task>>

----------------------------------------------------------------------------
(* Option<T> *)

None == [tag |-> "None"]
Some(v) == [tag |-> "Some", v |-> v]
IsSome(o) == o.tag = "Some"
IsNone(o) == o.tag = "None"

----------------------------------------------------------------------------
(* Bounds of the model *)

MaxCalls == 2
MaxSetterCalls == 3
MaxTasks == 2

----------------------------------------------------------------------------
(* src/src/error.rs: MindatError, and Result<T> *)

ErrRequest == [kind |-> "Request"]
ErrUrl == [kind |-> "Url"]
ErrApi(status, message) == [kind |-> "Api", status |-> status, message |-> message]
ErrDeserialization == [kind |-> "Deserialization"]
ErrAuthenticationRequired == [kind |-> "AuthenticationRequired"]
ErrRateLimited == [kind |-> "RateLimited"]
ErrNotFound(message) == [kind |-> "NotFound", message |-> message]
ErrInvalidParameter(message) == [kind |-> "InvalidParameter", message |-> message]
Ok(v) == [kind |-> "Ok", value |-> v]
IsOk(r) == r.kind = "Ok"

----------------------------------------------------------------------------
(* src/src/client.rs: constants *)

\* "https://api.mindat.org/v1/": origin and path segments (a trailing ""
\* segment is the trailing slash)
DEFAULT_BASE_URL ==
    [origin |-> "https://api.mindat.org", base |-> TRUE, segs |-> <<"v1", "">>]

USER_AGENT_STRING ==
    "Mozilla/5.0 (Windows NT 10.0; Win64; x64) AppleWebKit/537.36 (KHTML, like Gecko) Chrome/120.0.0.0 Safari/537.36"

\* the bytes of "Token "
TokenPrefix == <<84, 111, 107, 101, 110, 32>>

----------------------------------------------------------------------------
(* Inputs *)

\* tokens: "", "tk", "t k", and "t\n" (a line feed cannot be in a header value)
TokenStrings == {<< >>, <<116, 107>>, <<116, 32, 107>>, <<116, 10>>}

\* base URLs a built client can hold: the default, a custom one without a
\* trailing slash, a mock server's root, and a cannot-be-a-base URL
\* (Url::parse accepts "mailto:a@b", Url::join on it fails)
BaseUrls ==
    { DEFAULT_BASE_URL,
      [origin |-> "http://host", base |-> TRUE, segs |-> <<"v1">>],
      [origin |-> "http://127.0.0.1:8080", base |-> TRUE, segs |-> <<"">>],
      [origin |-> "mailto:a@b", base |-> FALSE, segs |-> << >>] }

\* paths the endpoint methods pass: "/countries/", "/geomaterials/7/"
Paths ==
    { [lead |-> TRUE, segs |-> <<"countries", "">>],
      [lead |-> TRUE, segs |-> <<"geomaterials", "7", "">>] }

\* query parameters of the simple endpoint methods (countries_page, ...)
SimpleQueries == { << >>, << <<"page", "2">> >> }

Statuses == {200, 204, 304, 400, 401, 403, 404, 429, 500}

\* response bodies; serde_json::from_str::<T> accepts only the first
Bodies == {"{\"id\":1}", "Not found", ""}

----------------------------------------------------------------------------
(* src/src/client.rs: MindatClient::headers *)

\* http::HeaderValue::from_str: every byte is a tab or a visible byte
HeaderValueOk(bytes) ==
    \A i \in 1..Len(bytes) :
        bytes[i] = 9 \/ (bytes[i] >= 32 /\ bytes[i] # 127)

\* headers attaching an Authorization header whether or not a token is set
headersAlwaysAuth(tok) ==
    Ok([user_agent |-> Some(USER_AGENT_STRING),
        accept |-> Some("application/json"),
        authorization |-> Some(TokenPrefix \o (IF IsSome(tok) THEN tok.v ELSE << >>))])

headers(tok) ==
    IF IsSome(tok)
    THEN IF HeaderValueOk(TokenPrefix \o tok.v)
         THEN Ok([user_agent |-> Some(USER_AGENT_STRING),
                  accept |-> Some("application/json"),
                  authorization |-> Some(TokenPrefix \o tok.v)])
         ELSE ErrInvalidParameter("Invalid token format")
    ELSE Ok([user_agent |-> Some(USER_AGENT_STRING),
             accept |-> Some("application/json"),
             authorization |-> None])

----------------------------------------------------------------------------
(* src/src/client.rs: URL building in get / get_with_query *)

\* path.strip_prefix('/').unwrap_or(path)
StripPrefix(path) == [path EXCEPT !.lead = FALSE]

Front(s) == SubSeq(s, 1, Len(s) - 1)

\* Url::join with a relative path: the last segment of the base path is
\* replaced by the relative path; a path with a leading slash replaces the
\* whole path; a cannot-be-a-base URL has nothing to join to
UrlJoin(b, path) ==
    IF ~b.base THEN ErrUrl
    ELSE IF path.lead THEN Ok([origin |-> b.origin, segs |-> path.segs])
    ELSE Ok([origin |-> b.origin, segs |-> Front(b.segs) \o path.segs])

----------------------------------------------------------------------------
(* src/src/client.rs: MindatClient::handle_response *)

\* serde_json::from_str(&text): the typed value, or a serde_json::Error
FromStr(text) ==
    IF text = "{\"id\":1}" THEN Ok([id |-> 1]) ELSE ErrDeserialization

\* StatusCode::is_success
IsSuccess(status) == status >= 200 /\ status < 300

\* a response: its status, the body on the wire, and whether
\* response.text().await can read the body to its end
Response(status, body, readable) ==
    [status |-> status, body |-> body, readable |-> readable]

\* handle_response without its 404 arm, decoding 404 bodies like a success
handle_responseNo404(resp) ==
    IF IsSuccess(resp.status) \/ resp.status = 404
    THEN IF resp.readable THEN FromStr(resp.body) ELSE ErrRequest
    ELSE LET message == IF resp.readable THEN resp.body ELSE "Unknown error"
         IN  CASE resp.status = 401 -> ErrAuthenticationRequired
               [] resp.status = 429 -> ErrRateLimited
               [] OTHER -> ErrApi(resp.status, message)

\* handle_response decoding with response.json(), whose decode failure is a
\* reqwest::Error
handle_responseJson(resp) ==
    IF IsSuccess(resp.status)
    THEN IF resp.readable /\ IsOk(FromStr(resp.body))
         THEN FromStr(resp.body) ELSE ErrRequest
    ELSE LET message == IF resp.readable THEN resp.body ELSE "Unknown error"
         IN  CASE resp.status = 401 -> ErrAuthenticationRequired
               [] resp.status = 404 -> ErrNotFound(message)
               [] resp.status = 429 -> ErrRateLimited
               [] OTHER -> ErrApi(resp.status, message)

handle_response(resp) ==
    IF IsSuccess(resp.status)
    THEN IF resp.readable THEN FromStr(resp.body) ELSE ErrRequest
    ELSE LET message == IF resp.readable THEN resp.body ELSE "Unknown error"
         IN  CASE resp.status = 401 -> ErrAuthenticationRequired
               [] resp.status = 404 -> ErrNotFound(message)
               [] resp.status = 429 -> ErrRateLimited
               [] OTHER -> ErrApi(resp.status, message)

----------------------------------------------------------------------------
(* src/src/client.rs: MindatClient::get / get_with_query, step by step *)

\* StartCall building the headers before the URL
StartCallHeadersFirst(path, q) ==
    LET url == UrlJoin(base_url, StripPrefix(path))
        hdrs == headers(token)
    IN  /\ pc = "idle"
        /\ ncalls < MaxCalls
        /\ ncalls' = ncalls + 1
        /\ response' = None
        /\ IF ~IsOk(hdrs)
           THEN /\ result' = Some(hdrs)
                /\ pc' = "done"
                /\ UNCHANGED <<request, nsent>>
           ELSE IF ~IsOk(url)
           THEN /\ result' = Some(url)
                /\ pc' = "done"
                /\ UNCHANGED <<request, nsent>>
           ELSE /\ request' = Some([url |-> url.value, headers |-> hdrs.value,
                                    query |-> q])
                /\ nsent' = nsent + 1
                /\ result' = None
                /\ pc' = "awaiting"
        /\ UNCHANGED <<token, base_url>>

\* up to send(): the URL is joined, the headers are built, the request leaves
StartCall(path, q) ==
    LET url == UrlJoin(base_url, StripPrefix(path))
        hdrs == headers(token)
    IN  /\ pc = "idle"
        /\ ncalls < MaxCalls
        /\ ncalls' = ncalls + 1
        /\ response' = None
        /\ IF ~IsOk(url)
           THEN /\ result' = Some(url)
                /\ pc' = "done"
                /\ UNCHANGED <<request, nsent>>
           ELSE IF ~IsOk(hdrs)
           THEN /\ result' = Some(hdrs)
                /\ pc' = "done"
                /\ UNCHANGED <<request, nsent>>
           ELSE /\ request' = Some([url |-> url.value, headers |-> hdrs.value,
                                    query |-> q])
                /\ nsent' = nsent + 1
                /\ result' = None
                /\ pc' = "awaiting"
        /\ UNCHANGED <<token, base_url>>

get(path) ==
    /\ StartCall(path, << >>)
    /\ UNCHANGED queryVars
    /\ UNCHANGED libVars
    /\ UNCHANGED guiVars

get_with_query(path, q) ==
    /\ StartCall(path, q)
    /\ UNCHANGED queryVars
    /\ UNCHANGED libVars
    /\ UNCHANGED guiVars

\* send().await? fails: the transport error is returned
SendFails ==
    /\ pc = "awaiting"
    /\ result' = Some(ErrRequest)
    /\ pc' = "done"
    /\ UNCHANGED <<token, base_url, request, response, nsent, ncalls>>
    /\ UNCHANGED queryVars
    /\ UNCHANGED libVars
    /\ UNCHANGED guiVars

\* Receive with one retry of a rate-limited request
ReceiveRetrying(resp) ==
    /\ pc = "awaiting"
    /\ response' = Some(resp)
    /\ IF resp.status = 429 /\ nsent < 2
       THEN /\ result' = None
            /\ pc' = "awaiting"
            /\ nsent' = nsent + 1
       ELSE /\ result' = Some(handle_response(resp))
            /\ pc' = "done"
            /\ nsent' = nsent
    /\ UNCHANGED <<token, base_url, request, ncalls>>
    /\ UNCHANGED queryVars
    /\ UNCHANGED libVars
    /\ UNCHANGED guiVars

\* send().await? succeeds: self.handle_response(response).await
Receive(resp) ==
    /\ pc = "awaiting"
    /\ response' = Some(resp)
    /\ result' = Some(handle_response(resp))
    /\ pc' = "done"
    /\ UNCHANGED <<token, base_url, request, nsent, ncalls>>
    /\ UNCHANGED queryVars
    /\ UNCHANGED libVars
    /\ UNCHANGED guiVars

\* the call has returned; the caller may start another one
Return ==
    /\ pc = "done"
    /\ pc' = "idle"
    /\ request' = None
    /\ response' = None
    /\ result' = None
    /\ nsent' = 0
    /\ UNCHANGED <<token, base_url, ncalls>>
    /\ UNCHANGED queryVars
    /\ UNCHANGED libVars
    /\ UNCHANGED guiVars

----------------------------------------------------------------------------
(* src/src/models/enums.rs: GeomaterialsOrdering *)

GeomaterialsOrdering ==
    <<"Id", "IdDesc", "Name", "NameDesc", "UpdateTime", "UpdateTimeDesc",
      "ApprovalYear", "ApprovalYearDesc", "Weighting", "WeightingDesc",
      "LocalityEntries", "LocalityEntriesDesc", "Photos", "PhotosDesc">>

OrderingVariants == {GeomaterialsOrdering[i] : i \in 1..Len(GeomaterialsOrdering)}

\* the #[serde(rename = "...")] token of each variant
SerdeToken(v) ==
    CASE v = "Id" -> "id"
      [] v = "IdDesc" -> "-id"
      [] v = "Name" -> "name"
      [] v = "NameDesc" -> "-name"
      [] v = "UpdateTime" -> "updttime"
      [] v = "UpdateTimeDesc" -> "-updttime"
      [] v = "ApprovalYear" -> "approval_year"
      [] v = "ApprovalYearDesc" -> "-approval_year"
      [] v = "Weighting" -> "weighting"
      [] v = "WeightingDesc" -> "-weighting"
      [] v = "LocalityEntries" -> "minstats__ms_locentries"
      [] v = "LocalityEntriesDesc" -> "-minstats__ms_locentries"
      [] v = "Photos" -> "minstats__ms_photos"
      [] v = "PhotosDesc" -> "-minstats__ms_photos"

\* Deserialize for GeomaterialsOrdering: the variant renamed to the token
DeserializeOrdering(t) ==
    IF \E i \in 1..Len(GeomaterialsOrdering) : SerdeToken(GeomaterialsOrdering[i]) = t
    THEN LET first == CHOOSE i \in 1..Len(GeomaterialsOrdering) :
                 /\ SerdeToken(GeomaterialsOrdering[i]) = t
                 /\ \A j \in 1..(i - 1) : SerdeToken(GeomaterialsOrdering[j]) # t
         IN  Some(GeomaterialsOrdering[first])
    ELSE None

\* Display with the descending update-time token misspelt as the ascending one
to_stringNoSign(v) ==
    CASE v = "Id" -> "id"
      [] v = "IdDesc" -> "-id"
      [] v = "Name" -> "name"
      [] v = "NameDesc" -> "-name"
      [] v = "UpdateTime" -> "updttime"
      [] v = "UpdateTimeDesc" -> "updttime"
      [] v = "ApprovalYear" -> "approval_year"
      [] v = "ApprovalYearDesc" -> "-approval_year"
      [] v = "Weighting" -> "weighting"
      [] v = "WeightingDesc" -> "-weighting"
      [] v = "LocalityEntries" -> "minstats__ms_locentries"
      [] v = "LocalityEntriesDesc" -> "-minstats__ms_locentries"
      [] v = "Photos" -> "minstats__ms_photos"
      [] v = "PhotosDesc" -> "-minstats__ms_photos"

\* impl Display for GeomaterialsOrdering
to_string(v) ==
    CASE v = "Id" -> "id"
      [] v = "IdDesc" -> "-id"
      [] v = "Name" -> "name"
      [] v = "NameDesc" -> "-name"
      [] v = "UpdateTime" -> "updttime"
      [] v = "UpdateTimeDesc" -> "-updttime"
      [] v = "ApprovalYear" -> "approval_year"
      [] v = "ApprovalYearDesc" -> "-approval_year"
      [] v = "Weighting" -> "weighting"
      [] v = "WeightingDesc" -> "-weighting"
      [] v = "LocalityEntries" -> "minstats__ms_locentries"
      [] v = "LocalityEntriesDesc" -> "-minstats__ms_locentries"
      [] v = "Photos" -> "minstats__ms_photos"
      [] v = "PhotosDesc" -> "-minstats__ms_photos"

----------------------------------------------------------------------------
(* src/src/models/geomaterials.rs: GeomaterialsQuery *)

GeomaterialsQueryFields ==
    {"name", "q", "ima", "ima_status", "ima_notes", "entrytype",
     "elements_inc", "elements_exc", "crystal_system", "cleavagetype",
     "fracturetype", "lustretype", "diapheny", "tenacity", "colour", "streak",
     "opticaltype", "opticalsign", "hardness_min", "hardness_max",
     "density_min", "density_max", "ri_min", "ri_max", "bi_min", "bi_max",
     "optical2v_min", "optical2v_max", "varietyof", "synid", "polytypeof",
     "groupid", "id_in", "non_utf", "meteoritical_code",
     "meteoritical_code_exists", "updated_at", "fields", "omit", "expand",
     "ordering", "page", "page_size"}

\* GeomaterialsQuery::new(): Self::default()
GeomaterialsQuery_new == [f \in GeomaterialsQueryFields |-> None]

GeomaterialsQuery_name(q, name) == [q EXCEPT !.name = Some(name)]
GeomaterialsQuery_search(q, text) == [q EXCEPT !.q = Some(text)]
GeomaterialsQuery_ima_approved(q, approved) == [q EXCEPT !.ima = Some(approved)]
GeomaterialsQuery_entry_types(q, types) == [q EXCEPT !.entrytype = Some(types)]
GeomaterialsQuery_with_elements(q, elements) ==
    [q EXCEPT !.elements_inc = Some(elements)]
GeomaterialsQuery_without_elements(q, elements) ==
    [q EXCEPT !.elements_exc = Some(elements)]
GeomaterialsQuery_crystal_systems(q, systems) ==
    [q EXCEPT !.crystal_system = Some(systems)]

\* hardness_range storing only the lower bound
hardness_rangeMinOnly(q, min, max) == [q EXCEPT !.hardness_min = Some(min)]

GeomaterialsQuery_hardness_range(q, min, max) ==
    [q EXCEPT !.hardness_min = Some(min), !.hardness_max = Some(max)]
GeomaterialsQuery_density_range(q, min, max) ==
    [q EXCEPT !.density_min = Some(min), !.density_max = Some(max)]
GeomaterialsQuery_select_fields(q, fields) == [q EXCEPT !.fields = Some(fields)]
GeomaterialsQuery_omit_fields(q, fields) == [q EXCEPT !.omit = Some(fields)]
GeomaterialsQuery_expand_fields(q, fields) == [q EXCEPT !.expand = Some(fields)]
GeomaterialsQuery_order_by(q, ordering) == [q EXCEPT !.ordering = Some(ordering)]
\* page also resetting the page size
GeomaterialsQuery_pageResetsSize(q, page) ==
    [q EXCEPT !.page = Some(page), !.page_size = None]

GeomaterialsQuery_page(q, page) == [q EXCEPT !.page = Some(page)]
GeomaterialsQuery_page_size(q, size) == [q EXCEPT !.page_size = Some(size)]

----------------------------------------------------------------------------
(* src/src/models/localities.rs: LocalitiesQuery *)

\* the fields of the struct, and page_size and page, which
\* MindatClient::localities reads from the query
LocalitiesQueryFields ==
    {"country", "txt", "description", "elements_inc", "elements_exc", "id_in",
     "updated_at", "fields", "omit", "expand", "cursor", "page_size", "page"}

LocalitiesQuery_new == [f \in LocalitiesQueryFields |-> None]

LocalitiesQuery_country(q, country) == [q EXCEPT !.country = Some(country)]
LocalitiesQuery_name_contains(q, txt) == [q EXCEPT !.txt = Some(txt)]
LocalitiesQuery_description_contains(q, desc) ==
    [q EXCEPT !.description = Some(desc)]
LocalitiesQuery_with_elements(q, elements) ==
    [q EXCEPT !.elements_inc = Some(elements)]
LocalitiesQuery_without_elements(q, elements) ==
    [q EXCEPT !.elements_exc = Some(elements)]
LocalitiesQuery_select_fields(q, fields) == [q EXCEPT !.fields = Some(fields)]
LocalitiesQuery_omit_fields(q, fields) == [q EXCEPT !.omit = Some(fields)]
LocalitiesQuery_expand_fields(q, fields) == [q EXCEPT !.expand = Some(fields)]
LocalitiesQuery_cursor(q, cursor) == [q EXCEPT !.cursor = Some(cursor)]

----------------------------------------------------------------------------
(* src/src/models/minerals_ima.rs: ImaMineralsQuery *)

ImaMineralsQueryFields ==
    {"q", "ima", "id_in", "updated_at", "fields", "omit", "expand", "page",
     "page_size"}

ImaMineralsQuery_new == [f \in ImaMineralsQueryFields |-> None]

ImaMineralsQuery_search(q, text) == [q EXCEPT !.q = Some(text)]
ImaMineralsQuery_select_fields(q, fields) == [q EXCEPT !.fields = Some(fields)]
ImaMineralsQuery_omit_fields(q, fields) == [q EXCEPT !.omit = Some(fields)]
ImaMineralsQuery_expand_fields(q, fields) == [q EXCEPT !.expand = Some(fields)]
ImaMineralsQuery_page(q, page) == [q EXCEPT !.page = Some(page)]
ImaMineralsQuery_page_size(q, size) == [q EXCEPT !.page_size = Some(size)]

----------------------------------------------------------------------------
(* Serialization of a QueryParams struct by serde_urlencoded *)

Digit(d) ==
    CASE d = 0 -> "0" [] d = 1 -> "1" [] d = 2 -> "2" [] d = 3 -> "3"
      [] d = 4 -> "4" [] d = 5 -> "5" [] d = 6 -> "6" [] d = 7 -> "7"
      [] d = 8 -> "8" [] d = 9 -> "9"

RECURSIVE NatToString(_)
NatToString(n) ==
    IF n < 10 THEN Digit(n) ELSE NatToString(n \div 10) \o Digit(n % 10)

\* an integer in decimal
IntToString(n) == IF n < 0 THEN "-" \o NatToString(-n) ELSE NatToString(n)

\* a float, held in tenths, in its shortest decimal form (6.0, 2.5)
FloatToString(t) ==
    IF t < 0
    THEN "-" \o NatToString((-t) \div 10) \o "." \o Digit((-t) % 10)
    ELSE NatToString(t \div 10) \o "." \o Digit(t % 10)

BoolToString(b) == IF b THEN "true" ELSE "false"

\* the text of one value, by the type of its QueryParams field
ParamValue(type, v) ==
    CASE type = "String" -> v
      [] type = "bool" -> BoolToString(v)
      [] type = "i32" -> IntToString(v)
      [] type \in {"f32", "f64"} -> FloatToString(v)

\* Serialize without #[serde(skip_serializing_if = "Option::is_none")]:
\* an unset field is written with an empty value
RECURSIVE SerializeNoSkip(_, _)
SerializeNoSkip(layout, params) ==
    IF layout = << >> THEN << >>
    ELSE LET f == Head(layout)
         IN  (IF IsSome(params[f.name])
              THEN << <<f.name, ParamValue(f.type, params[f.name].v)>> >>
              ELSE << <<f.name, "">> >>)
             \o SerializeNoSkip(Tail(layout), params)

\* the name=value pairs of a QueryParams struct, in field order; a field that
\* is None is skipped
RECURSIVE Serialize(_, _)
Serialize(layout, params) ==
    IF layout = << >> THEN << >>
    ELSE LET f == Head(layout)
         IN  (IF IsSome(params[f.name])
              THEN << <<f.name, ParamValue(f.type, params[f.name].v)>> >>
              ELSE << >>)
             \o Serialize(Tail(layout), params)

F(name, type) == [name |-> name, type |-> type]

----------------------------------------------------------------------------
(* src/src/client.rs: the QueryParams structs of geomaterials, localities   *)
(* and minerals_ima                                                         *)

GeomaterialsQueryParams ==
    << F("name", "String"), F("q", "String"), F("ima", "bool"),
       F("elements_inc", "String"), F("elements_exc", "String"),
       F("colour", "String"), F("streak", "String"),
       F("hardness_min", "f32"), F("hardness_max", "f32"),
       F("density_min", "f64"), F("density_max", "f64"),
       F("ri_min", "f32"), F("ri_max", "f32"),
       F("bi_min", "String"), F("bi_max", "String"),
       F("optical2v_min", "String"), F("optical2v_max", "String"),
       F("varietyof", "i32"), F("synid", "i32"), F("polytypeof", "i32"),
       F("groupid", "i32"), F("non_utf", "bool"),
       F("meteoritical_code", "String"),
       F("meteoritical_code_exists", "bool"), F("updated_at", "String"),
       F("fields", "String"), F("omit", "String"), F("ordering", "String"),
       F("page", "i32"), F("page_size", "i32") >>

LocalitiesQueryParams ==
    << F("country", "String"), F("txt", "String"), F("description", "String"),
       F("elements_inc", "String"), F("elements_exc", "String"),
       F("updated_at", "String"), F("fields", "String"), F("omit", "String"),
       F("cursor", "String"), F("page_size", "i32"), F("page", "i32") >>

ImaMineralsQueryParams ==
    << F("q", "String"), F("ima", "i32"), F("updated_at", "String"),
       F("fields", "String"), F("omit", "String"), F("page", "i32"),
       F("page_size", "i32") >>

ParamNames(layout) == {layout[i].name : i \in 1..Len(layout)}

\* let params = QueryParams { name: query.name, ...,
\*                            ordering: query.ordering.map(|o| o.to_string()),
\*                            ... }
geomaterials_params(q) ==
    [n \in ParamNames(GeomaterialsQueryParams) |->
        IF n = "ordering"
        THEN IF IsSome(q.ordering) THEN Some(to_string(q.ordering.v)) ELSE None
        ELSE q[n]]

localities_params(q) == [n \in ParamNames(LocalitiesQueryParams) |-> q[n]]

minerals_ima_params(q) == [n \in ParamNames(ImaMineralsQueryParams) |-> q[n]]

\* the paths "/geomaterials/", "/localities/", "/minerals-ima/"
EndpointPath(name) == [lead |-> TRUE, segs |-> <<name, "">>]

\* MindatClient::geomaterials(query)
geomaterials ==
    /\ family = "geomaterials"
    /\ StartCall(EndpointPath("geomaterials"),
                 Serialize(GeomaterialsQueryParams, geomaterials_params(query.v)))
    /\ UNCHANGED queryVars
    /\ UNCHANGED libVars
    /\ UNCHANGED guiVars

\* MindatClient::localities(query)
localities ==
    /\ family = "localities"
    /\ StartCall(EndpointPath("localities"),
                 Serialize(LocalitiesQueryParams, localities_params(query.v)))
    /\ UNCHANGED queryVars
    /\ UNCHANGED libVars
    /\ UNCHANGED guiVars

\* MindatClient::minerals_ima(query)
minerals_ima ==
    /\ family = "minerals_ima"
    /\ StartCall(EndpointPath("minerals-ima"),
                 Serialize(ImaMineralsQueryParams, minerals_ima_params(query.v)))
    /\ UNCHANGED queryVars
    /\ UNCHANGED libVars
    /\ UNCHANGED guiVars

----------------------------------------------------------------------------
(* Building a query model *)

Families == {"geomaterials", "localities", "minerals_ima"}

\* arguments the callers pass to the setters
NameValues == {"", "quartz"}
ElementValues == {"", "Si,O"}
FieldLists == {"", "id,name"}
ExpandLists == {<<"locality">>, <<"locality", "minstats">>}
EntryTypeLists == {<<0>>, <<0, 2>>}
CrystalSystemLists == {<<"Triclinic">>, <<"Triclinic", "Hexagonal">>}
\* f32 / f64 bounds in tenths: (6.0, 7.0) and the inverted (7.0, 6.0)
Ranges == {<<60, 70>>, <<70, 60>>}
PageNumbers == {1, 2}
PageSizes == {-5, 0, 50}

\* GeomaterialsQuery::new(), LocalitiesQuery::new(), ImaMineralsQuery::new()
NewQuery(fam) ==
    /\ family = "none"
    /\ family' = fam
    /\ query' = Some(CASE fam = "geomaterials" -> GeomaterialsQuery_new
                       [] fam = "localities" -> LocalitiesQuery_new
                       [] fam = "minerals_ima" -> ImaMineralsQuery_new)
    /\ nset' = 0
    /\ UNCHANGED execVars
    /\ UNCHANGED libVars
    /\ UNCHANGED guiVars

\* one builder setter call: the model is replaced by the one the setter returns
Set(fam, q) ==
    /\ family = fam
    /\ pc = "idle"
    /\ ncalls = 0
    /\ nset < MaxSetterCalls
    /\ query' = Some(q)
    /\ nset' = nset + 1
    /\ UNCHANGED family
    /\ UNCHANGED execVars
    /\ UNCHANGED libVars
    /\ UNCHANGED guiVars

GeomaterialsSetter ==
    /\ family = "geomaterials"
    /\ \/ \E v \in NameValues : Set("geomaterials", GeomaterialsQuery_name(query.v, v))
       \/ \E v \in NameValues : Set("geomaterials", GeomaterialsQuery_search(query.v, v))
       \/ \E v \in BOOLEAN : Set("geomaterials", GeomaterialsQuery_ima_approved(query.v, v))
       \/ \E v \in EntryTypeLists : Set("geomaterials", GeomaterialsQuery_entry_types(query.v, v))
       \/ \E v \in ElementValues : Set("geomaterials", GeomaterialsQuery_with_elements(query.v, v))
       \/ \E v \in ElementValues : Set("geomaterials", GeomaterialsQuery_without_elements(query.v, v))
       \/ \E v \in CrystalSystemLists : Set("geomaterials", GeomaterialsQuery_crystal_systems(query.v, v))
       \/ \E r \in Ranges : Set("geomaterials", GeomaterialsQuery_hardness_range(query.v, r[1], r[2]))
       \/ \E r \in Ranges : Set("geomaterials", GeomaterialsQuery_density_range(query.v, r[1], r[2]))
       \/ \E v \in FieldLists : Set("geomaterials", GeomaterialsQuery_select_fields(query.v, v))
       \/ \E v \in FieldLists : Set("geomaterials", GeomaterialsQuery_omit_fields(query.v, v))
       \/ \E v \in ExpandLists : Set("geomaterials", GeomaterialsQuery_expand_fields(query.v, v))
       \/ \E v \in OrderingVariants : Set("geomaterials", GeomaterialsQuery_order_by(query.v, v))
       \/ \E v \in PageNumbers : Set("geomaterials", GeomaterialsQuery_page(query.v, v))
       \/ \E v \in PageSizes : Set("geomaterials", GeomaterialsQuery_page_size(query.v, v))

LocalitiesSetter ==
    /\ family = "localities"
    /\ \/ \E v \in NameValues : Set("localities", LocalitiesQuery_country(query.v, v))
       \/ \E v \in NameValues : Set("localities", LocalitiesQuery_name_contains(query.v, v))
       \/ \E v \in NameValues : Set("localities", LocalitiesQuery_description_contains(query.v, v))
       \/ \E v \in ElementValues : Set("localities", LocalitiesQuery_with_elements(query.v, v))
       \/ \E v \in ElementValues : Set("localities", LocalitiesQuery_without_elements(query.v, v))
       \/ \E v \in FieldLists : Set("localities", LocalitiesQuery_select_fields(query.v, v))
       \/ \E v \in FieldLists : Set("localities", LocalitiesQuery_omit_fields(query.v, v))
       \/ \E v \in ExpandLists : Set("localities", LocalitiesQuery_expand_fields(query.v, v))
       \/ \E v \in NameValues : Set("localities", LocalitiesQuery_cursor(query.v, v))

ImaMineralsSetter ==
    /\ family = "minerals_ima"
    /\ \/ \E v \in NameValues : Set("minerals_ima", ImaMineralsQuery_search(query.v, v))
       \/ \E v \in FieldLists : Set("minerals_ima", ImaMineralsQuery_select_fields(query.v, v))
       \/ \E v \in FieldLists : Set("minerals_ima", ImaMineralsQuery_omit_fields(query.v, v))
       \/ \E v \in ExpandLists : Set("minerals_ima", ImaMineralsQuery_expand_fields(query.v, v))
       \/ \E v \in PageNumbers : Set("minerals_ima", ImaMineralsQuery_page(query.v, v))
       \/ \E v \in PageSizes : Set("minerals_ima", ImaMineralsQuery_page_size(query.v, v))

----------------------------------------------------------------------------
(* src/src/client.rs: MindatClient values, and the executor run by one      *)

MindatClient_new(tok) == [token |-> Some(tok), base_url |-> DEFAULT_BASE_URL]

MindatClient_anonymous == [token |-> None, base_url |-> DEFAULT_BASE_URL]

\* Url::as_str: the origin, then "/" and each segment of the path
as_str(u) ==
    LET RECURSIVE PathText(_)
        PathText(segs) ==
            IF segs = << >> THEN "" ELSE "/" \o Head(segs) \o PathText(Tail(segs))
    IN  u.origin \o PathText(u.segs)

\* get / get_with_query of the client c up to send(): the request that
\* leaves, or the error returned before anything is sent
Execute(c, path, q) ==
    LET url == UrlJoin(c.base_url, StripPrefix(path))
        hdrs == headers(c.token)
    IN  IF ~IsOk(url) THEN url
        ELSE IF ~IsOk(hdrs) THEN hdrs
        ELSE Ok([url |-> url.value, headers |-> hdrs.value, query |-> q])

----------------------------------------------------------------------------
(* src/gui/src-tauri/src/lib.rs: the command layer of the GUI.  Each task   *)
(* runs one command at a time; pc is idle, waiting (queued for the lock),   *)
(* holding (the guard is held), awaiting (the request is in flight), done.  *)

\* impl From<MindatError> for CommandError: the message is e.to_string()
\* (the error of a message given as text is written as the record itself)
CommandError(e) ==
    [kind |-> "CommandError",
     message |->
        CASE e.kind = "Request" -> "HTTP request failed"
          [] e.kind = "Url" -> "Invalid URL"
          [] e.kind = "Api" ->
               "API error (status " \o IntToString(e.status) \o "): " \o e.message
          [] e.kind = "Deserialization" -> "Failed to parse response"
          [] e.kind = "AuthenticationRequired" ->
               "Authentication required: please provide a valid API token"
          [] e.kind = "RateLimited" ->
               "Rate limit exceeded, please wait before making more requests"
          [] e.kind = "NotFound" -> "Resource not found: " \o e.message
          [] e.kind = "InvalidParameter" -> "Invalid parameter: " \o e.message]

\* the commands with the arguments the front end passes
Invocations ==
    {<<"set_api_token", [token |-> tok]>> : tok \in TokenStrings \ {<<116, 32, 107>>}}
    \cup {<<"is_configured", << >> >>, <<"clear_client", << >> >>}
    \cup {<<"search_minerals", [name |-> "quartz", page |-> None, page_size |-> None]>>}
    \cup {<<"search_ima_minerals", [search |-> s, page |-> None, page_size |-> None]>> :
            s \in NameValues}
    \cup {<<"get_mineral", [id |-> 7]>>}
    \cup {<<"list_countries", [page |-> p]>> : p \in {None, Some(2)}}
    \cup {<<"get_country", [id |-> 7]>>}
    \cup {<<"search_localities", [country |-> Some("Brazil"), name_contains |-> None]>>}
    \cup {<<"get_locality", [id |-> 7]>>}
    \cup {<<"search_by_elements",
            [include_elements |-> "Si,O", exclude_elements |-> None, page |-> None]>>}
    \cup {<<"search_localities_by_gps", [country |-> c, name_contains |-> n]>> :
            c \in {None, Some(""), Some("Brazil")}, n \in {None, Some(""), Some("gold")}}
    \cup {<<"search_localities_by_elements",
            [include_elements |-> "Au", exclude_elements |-> Some("Ag")]>>}
    \cup {<<"get_dana8_groups", << >> >>, <<"get_strunz10_classes", << >> >>}
    \cup {<<"quick_search", [query |-> "quartz", size |-> None]>>}
    \cup {<<"get_photo_count", << >> >>}

InitGui ==
    /\ client = None
    /\ lock = [readers |-> {}, writer |-> {}, queue |-> << >>]
    /\ task = [t \in 1..MaxTasks |->
                 [pc |-> "idle", cmd |-> "none", args |-> << >>,
                  request |-> None, result |-> None]]

\* a command is invoked and runs up to its first await of the lock:
\* state.client.write().await of set_api_token and clear_client,
\* state.client.read().await of the others.  tokio's RwLock is fair: the
\* guard is given at once when the lock is free for the mode and nobody is
\* queued, and the task joins the queue otherwise.
\* search_localities_by_gps returns before that when both filters are None.
Invoke(t, cmd, args) ==
    LET write == cmd \in {"set_api_token", "clear_client"}
        free == /\ lock.queue = << >>
                /\ lock.writer = {}
                /\ write => lock.readers = {}
        started == [pc |-> "waiting", cmd |-> cmd, args |-> args,
                    request |-> None, result |-> None]
    IN  /\ task[t].pc = "idle"
        /\ IF cmd = "search_localities_by_gps"
                /\ IsNone(args.country) /\ IsNone(args.name_contains)
           THEN /\ task' = [task EXCEPT ![t] =
                    [started EXCEPT
                        !.pc = "done",
                        !.result = Some(
                            [kind |-> "CommandError",
                             message |-> "Please specify a country or name filter to narrow down the search"])]]
                /\ UNCHANGED lock
           ELSE IF free
           THEN /\ task' = [task EXCEPT ![t] = [started EXCEPT !.pc = "holding"]]
                /\ lock' = IF write THEN [lock EXCEPT !.writer = {t}]
                           ELSE [lock EXCEPT !.readers = @ \cup {t}]
           ELSE /\ task' = [task EXCEPT ![t] = started]
                /\ lock' = [lock EXCEPT !.queue = Append(@, t)]
        /\ UNCHANGED client
        /\ UNCHANGED <<execVars, queryVars, libVars>>

\* the lock is given to the task at the head of the queue
Grant(t) ==
    LET write == task[t].cmd \in {"set_api_token", "clear_client"}
    IN  /\ lock.queue # << >>
        /\ Head(lock.queue) = t
        /\ lock.writer = {}
        /\ write => lock.readers = {}
        /\ lock' = IF write
                   THEN [lock EXCEPT !.writer = {t}, !.queue = Tail(@)]
                   ELSE [lock EXCEPT !.readers = @ \cup {t}, !.queue = Tail(@)]
        /\ task' = [task EXCEPT ![t].pc = "holding"]
        /\ UNCHANGED client
        /\ UNCHANGED <<execVars, queryVars, libVars>>

\* set_api_token changing the token of the one shared client in place, so
\* that requests already built carry the new token
set_api_tokenInPlace(t) ==
    LET new == IF task[t].args.token = << >>
               THEN MindatClient_anonymous
               ELSE MindatClient_new(task[t].args.token)
    IN  /\ task[t].pc = "holding"
        /\ task[t].cmd = "set_api_token"
        /\ client' = Some(new)
        /\ lock' = [lock EXCEPT !.writer = {}]
        /\ task' = [u \in 1..MaxTasks |->
                      IF u = t
                      THEN [task[t] EXCEPT !.pc = "done",
                                           !.result = Some(Ok("API token set successfully"))]
                      ELSE IF task[u].pc = "awaiting" /\ IsOk(headers(new.token))
                      THEN [task[u] EXCEPT !.request =
                               Some([@.v EXCEPT !.headers = headers(new.token).value])]
                      ELSE task[u]]
        /\ UNCHANGED <<execVars, queryVars, libVars>>

\* *state.client.write().await = Some(Arc::new(client)); the guard is
\* dropped at the end of the statement
set_api_token(t) ==
    /\ task[t].pc = "holding"
    /\ task[t].cmd = "set_api_token"
    /\ client' = Some(IF task[t].args.token = << >>
                      THEN MindatClient_anonymous
                      ELSE MindatClient_new(task[t].args.token))
    /\ lock' = [lock EXCEPT !.writer = {}]
    /\ task' = [task EXCEPT ![t].pc = "done",
                            ![t].result = Some(Ok("API token set successfully"))]
    /\ UNCHANGED <<execVars, queryVars, libVars>>

\* let configured = state.client.read().await.is_some()
is_configured(t) ==
    /\ task[t].pc = "holding"
    /\ task[t].cmd = "is_configured"
    /\ lock' = [lock EXCEPT !.readers = @ \ {t}]
    /\ task' = [task EXCEPT ![t].pc = "done",
                            ![t].result = Some(Ok(IsSome(client)))]
    /\ UNCHANGED client
    /\ UNCHANGED <<execVars, queryVars, libVars>>

\* *state.client.write().await = None
clear_client(t) ==
    /\ task[t].pc = "holding"
    /\ task[t].cmd = "clear_client"
    /\ client' = None
    /\ lock' = [lock EXCEPT !.writer = {}]
    /\ task' = [task EXCEPT ![t].pc = "done",
                            ![t].result = Some(Ok("Client cleared"))]
    /\ UNCHANGED <<execVars, queryVars, libVars>>

\* get_client falling back to an anonymous client when none is stored
get_clientOrAnonymous(stored) ==
    Ok(IF IsSome(stored) THEN stored.v ELSE MindatClient_anonymous)

\* state.client.read().await.clone().ok_or_else(|| "Client not configured..."),
\* applied to the stored value
get_client(stored) ==
    IF IsSome(stored) THEN Ok(stored.v)
    ELSE [kind |-> "CommandError",
          message |-> "Client not configured. Set an API token first."]

\* the library method each endpoint command calls on its client c, with the
\* query model it builds from its arguments, up to send()
LibraryCall(cmd, args, c) ==
    LET Id(name, id) == [lead |-> TRUE, segs |-> <<name, IntToString(id), "">>]
        Elements(q) ==
            IF IsSome(args.exclude_elements)
            THEN LocalitiesQuery_without_elements(q, args.exclude_elements.v) ELSE q
        Country(q, skip) ==
            IF IsSome(args.country) /\ args.country.v \notin skip
            THEN LocalitiesQuery_country(q, args.country.v) ELSE q
        Name(q, skip) ==
            IF IsSome(args.name_contains) /\ args.name_contains.v \notin skip
            THEN LocalitiesQuery_name_contains(q, args.name_contains.v) ELSE q
        Localities(q) ==
            Execute(c, EndpointPath("localities"),
                    Serialize(LocalitiesQueryParams, localities_params(q)))
        Geomaterials(q) ==
            Execute(c, EndpointPath("geomaterials"),
                    Serialize(GeomaterialsQueryParams, geomaterials_params(q)))
    IN  CASE cmd = "search_minerals" ->
               Geomaterials(GeomaterialsQuery_name(GeomaterialsQuery_new, args.name))
          [] cmd = "search_ima_minerals" ->
               Execute(c, EndpointPath("minerals-ima"),
                       Serialize(ImaMineralsQueryParams,
                                 minerals_ima_params(
                                     IF args.search # ""
                                     THEN ImaMineralsQuery_search(ImaMineralsQuery_new,
                                                                  args.search)
                                     ELSE ImaMineralsQuery_new)))
          [] cmd = "get_mineral" -> Execute(c, Id("geomaterials", args.id), << >>)
          [] cmd = "list_countries" ->
               Execute(c, EndpointPath("countries"),
                       IF IsSome(args.page)
                       THEN << <<"page", IntToString(args.page.v)>> >> ELSE << >>)
          [] cmd = "get_country" -> Execute(c, Id("countries", args.id), << >>)
          [] cmd = "search_localities" ->
               Localities(Name(Country(LocalitiesQuery_new, {}), {}))
          [] cmd = "get_locality" -> Execute(c, Id("localities", args.id), << >>)
          [] cmd = "search_by_elements" ->
               Geomaterials(GeomaterialsQuery_with_elements(GeomaterialsQuery_new,
                                                            args.include_elements))
          [] cmd = "search_localities_by_gps" ->
               Localities(Name(Country(LocalitiesQuery_new, {""}), {""}))
          [] cmd = "search_localities_by_elements" ->
               Localities(Elements(LocalitiesQuery_with_elements(LocalitiesQuery_new,
                                                                  args.include_elements)))
          [] cmd = "get_dana8_groups" ->
               Execute(c, [lead |-> TRUE, segs |-> <<"dana-8", "groups", "">>], << >>)
          [] cmd = "get_strunz10_classes" ->
               Execute(c, [lead |-> TRUE, segs |-> <<"nickel-strunz-10", "classes", "">>],
                       << >>)
          [] cmd = "quick_search" ->
               Execute(c, EndpointPath("geomaterials-search"), << <<"q", args.query>> >>)
          [] cmd = "get_photo_count" -> Execute(c, EndpointPath("photo-count"), << >>)

\* Proceed keeping the read guard while the request is in flight
ProceedHoldingGuard(t, c) ==
    LET sent == IF IsOk(c) THEN LibraryCall(task[t].cmd, task[t].args, c.value) ELSE c
    IN  /\ lock' = IF IsOk(sent) THEN lock ELSE [lock EXCEPT !.readers = @ \ {t}]
        /\ task' = IF IsOk(sent)
                   THEN [task EXCEPT ![t].pc = "awaiting",
                                     ![t].request = Some(sent.value)]
                   ELSE [task EXCEPT ![t].pc = "done",
                                     ![t].result = Some(IF IsOk(c) THEN CommandError(sent)
                                                        ELSE c)]
        /\ UNCHANGED client
        /\ UNCHANGED <<execVars, queryVars, libVars>>

\* an endpoint command holding a read guard: the stored client is cloned,
\* the guard is dropped, and the library method runs up to send() on the
\* clone c (or the command returns the error of get_client or of the library)
Proceed(t, c) ==
    LET sent == IF IsOk(c) THEN LibraryCall(task[t].cmd, task[t].args, c.value) ELSE c
    IN  /\ lock' = [lock EXCEPT !.readers = @ \ {t}]
        /\ task' = IF IsOk(sent)
                   THEN [task EXCEPT ![t].pc = "awaiting",
                                     ![t].request = Some(sent.value)]
                   ELSE [task EXCEPT ![t].pc = "done",
                                     ![t].result = Some(IF IsOk(c) THEN CommandError(sent)
                                                        ELSE c)]
        /\ UNCHANGED client
        /\ UNCHANGED <<execVars, queryVars, libVars>>

\* let client = get_client(&state).await?; ... client.<method>(..).await of
\* every endpoint command but search_ima_minerals
EndpointCommand(t) ==
    /\ task[t].pc = "holding"
    /\ task[t].cmd \notin {"set_api_token", "is_configured", "clear_client",
                           "search_ima_minerals"}
    /\ Proceed(t, get_client(client))

\* search_ima_minerals storing the anonymous client it creates
search_ima_mineralsStoring(t) ==
    /\ task[t].pc = "holding"
    /\ task[t].cmd = "search_ima_minerals"
    /\ LET c == IF IsSome(client) THEN client.v ELSE MindatClient_anonymous
           sent == LibraryCall(task[t].cmd, task[t].args, c)
       IN  /\ lock' = [lock EXCEPT !.readers = @ \ {t}]
           /\ task' = IF IsOk(sent)
                      THEN [task EXCEPT ![t].pc = "awaiting",
                                        ![t].request = Some(sent.value)]
                      ELSE [task EXCEPT ![t].pc = "done",
                                        ![t].result = Some(CommandError(sent))]
           /\ client' = Some(c)
           /\ UNCHANGED <<execVars, queryVars, libVars>>

\* let client = match state.client.read().await.clone() { Some(c) => c,
\* None => Arc::new(MindatClient::anonymous()) }; the guard is dropped at the
\* end of the match
search_ima_minerals(t) ==
    /\ task[t].pc = "holding"
    /\ task[t].cmd = "search_ima_minerals"
    /\ Proceed(t, Ok(IF IsSome(client) THEN client.v ELSE MindatClient_anonymous))

\* client.<method>(..).await returns: let response = response?
Await(t, returned_by_library) ==
    /\ task[t].pc = "awaiting"
    /\ task' = [task EXCEPT
                   ![t].pc = "done",
                   ![t].result = Some(IF IsOk(returned_by_library) THEN Ok("value")
                                      ELSE CommandError(returned_by_library))]
    /\ UNCHANGED <<client, lock>>
    /\ UNCHANGED <<execVars, queryVars, libVars>>

\* the result of the command has been delivered to the front end
Deliver(t) ==
    /\ task[t].pc = "done"
    /\ task' = [task EXCEPT ![t] = [pc |-> "idle", cmd |-> "none", args |-> << >>,
                                    request |-> None, result |-> None]]
    /\ UNCHANGED <<client, lock>>
    /\ UNCHANGED <<execVars, queryVars, libVars>>

----------------------------------------------------------------------------
(* Clients: MindatClient::new, MindatClient::anonymous, MindatClientBuilder *)

Clients ==
    { [token |-> t, base_url |-> b] :
        t \in {None} \cup {Some(s) : s \in TokenStrings}, b \in BaseUrls }

InitExec ==
    /\ \E c \in Clients : token = c.token /\ base_url = c.base_url
    /\ pc = "idle"
    /\ request = None
    /\ response = None
    /\ result = None
    /\ nsent = 0
    /\ ncalls = 0

InitQuery ==
    /\ family = "none"
    /\ query = None
    /\ nset = 0

InitLib ==
    /\ envelope = None
    /\ raw = None
    /\ returned = None

Init == InitExec /\ InitQuery /\ InitLib /\ InitGui

NextExec ==
    \/ \E p \in Paths : get(p)
    \/ \E p \in Paths, q \in SimpleQueries \ {<< >>} : get_with_query(p, q)
    \/ SendFails
    \/ \E s \in Statuses, b \in Bodies, r \in BOOLEAN : Receive(Response(s, b, r))
    \/ Return

SpecExec == Init /\ [][NextExec]_vars

\* the client of the query specification: MindatClient::new("tk")
InitQueryClient ==
    /\ token = Some(<<116, 107>>)
    /\ base_url = DEFAULT_BASE_URL
    /\ pc = "idle"
    /\ request = None
    /\ response = None
    /\ result = None
    /\ nsent = 0
    /\ ncalls = 0

NextQuery ==
    \/ \E fam \in Families : NewQuery(fam)
    \/ GeomaterialsSetter
    \/ LocalitiesSetter
    \/ ImaMineralsSetter
    \/ geomaterials
    \/ localities
    \/ minerals_ima

InitQ == InitQueryClient /\ InitQuery /\ InitLib /\ InitGui

SpecQuery == InitQ /\ [][NextQuery]_vars

NextGui ==
    \/ \E t \in 1..MaxTasks, i \in Invocations : Invoke(t, i[1], i[2])
    \/ \E t \in 1..MaxTasks : Grant(t)
    \/ \E t \in 1..MaxTasks : set_api_token(t)
    \/ \E t \in 1..MaxTasks : is_configured(t)
    \/ \E t \in 1..MaxTasks : clear_client(t)
    \/ \E t \in 1..MaxTasks : EndpointCommand(t)
    \/ \E t \in 1..MaxTasks : search_ima_minerals(t)
    \/ \E t \in 1..MaxTasks :
           \E r \in {ErrRequest, handle_response(Response(200, "{\"id\":1}", TRUE)),
                     handle_response(Response(401, "", TRUE))} : Await(t, r)
    \/ \E t \in 1..MaxTasks : Deliver(t)

SpecGui == InitQ /\ [][NextGui]_vars

\* the tokio runtime polls a task that can run: a queued task that can be
\* given the lock is given it, and a task holding a guard runs to the end of
\* its statement; nothing makes a request in flight complete
FairGui ==
    /\ InitQ
    /\ [][NextGui]_vars
    /\ \A t \in 1..MaxTasks :
           /\ WF_vars(Grant(t))
           /\ WF_vars(set_api_token(t) \/ is_configured(t) \/ clear_client(t)
                         \/ EndpointCommand(t) \/ search_ima_minerals(t))

----------------------------------------------------------------------------
(* Text that the code parses: a sequence of pieces, each one a character   *)
(* of URL or number syntax (":" "/" "?" "#" "&" "=" "+" "-" "." " "), a    *)
(* percent escape ("%3D"), a decimal digit, or a run of other characters.  *)

\* the String the pieces spell
RECURSIVE Concat(_)
Concat(s) == IF s = << >> THEN "" ELSE Head(s) \o Concat(Tail(s))

\* str::find, Iterator::position: the index of the first element p of s, 0
\* when there is none
Find(s, p) ==
    IF \E i \in 1..Len(s) : s[i] = p
    THEN CHOOSE i \in 1..Len(s) : s[i] = p /\ \A j \in 1..(i - 1) : s[j] # p
    ELSE 0

\* str::split on one character
RECURSIVE Split(_, _)
Split(s, p) ==
    IF Find(s, p) = 0 THEN <<s>>
    ELSE <<SubSeq(s, 1, Find(s, p) - 1)>> \o Split(SubSeq(s, Find(s, p) + 1, Len(s)), p)

\* char::to_digit(10) of the decimal digits
DigitValue ==
    [c \in {"0", "1", "2", "3", "4", "5", "6", "7", "8", "9"} |->
        CASE c = "0" -> 0 [] c = "1" -> 1 [] c = "2" -> 2 [] c = "3" -> 3
          [] c = "4" -> 4 [] c = "5" -> 5 [] c = "6" -> 6 [] c = "7" -> 7
          [] c = "8" -> 8 [] c = "9" -> 9]

\* MIN and MAX of the integer types of the decoded values; the integers of
\* the model end at i32::MAX, which stands for u32::MAX
IntRange(type) ==
    CASE type = "i32" -> <<(-2147483647) - 1, 2147483647>>
      [] type = "i16" -> <<-32768, 32767>>
      [] type = "u32" -> <<0, 2147483647>>

\* core::num from_str_radix(.., 10) after the sign: the digits from the i-th
\* on are accumulated with checked_mul and checked_add (checked_sub for a
\* negative number); a piece that is no digit, or an overflow, is an error.
\* lim is the largest magnitude, as <<tens, units>>
RECURSIVE ParseDigits(_, _, _, _, _)
ParseDigits(ds, i, acc, sign, lim) ==
    IF i > Len(ds) THEN Some(acc)
    ELSE IF ds[i] \notin DOMAIN DigitValue THEN None
    ELSE IF sign * acc > lim[1]
            \/ (sign * acc = lim[1] /\ DigitValue[ds[i]] > lim[2]) THEN None
    ELSE ParseDigits(ds, i + 1, (acc * 10) + (sign * DigitValue[ds[i]]), sign, lim)

\* s.parse::<type>().ok() for an integer type: the empty string and a sign
\* alone are errors, "-" is a sign only for a signed type
ParseInt(s, type) ==
    LET min == IntRange(type)[1]
        max == IntRange(type)[2]
        x == -(min + 1)
        negLimit == IF x % 10 = 9 THEN <<(x \div 10) + 1, 0>>
                    ELSE <<x \div 10, (x % 10) + 1>>
        posLimit == <<max \div 10, max % 10>>
    IN  IF s = << >> THEN None
        ELSE IF s[1] = "+"
        THEN IF Len(s) = 1 THEN None ELSE ParseDigits(Tail(s), 1, 0, 1, posLimit)
        ELSE IF s[1] = "-" /\ min < 0
        THEN IF Len(s) = 1 THEN None ELSE ParseDigits(Tail(s), 1, 0, -1, negLimit)
        ELSE ParseDigits(s, 1, 0, 1, posLimit)

----------------------------------------------------------------------------
(* JSON values, as serde_json hands them to a Deserialize implementation:  *)
(* a value is written [type |-> value], the types being "null", "bool",    *)
(* "int" (a number written without fraction or exponent), "frac" (a number *)
(* with a fraction, given in tenths: 7.5 is 75), "string" (its pieces),    *)
(* "array" (a sequence of values) and "object" (a function from the names  *)
(* of its members to their values).                                        *)

Json(t, v) == t :> v
JType(j) == CHOOSE t \in DOMAIN j : TRUE
JValue(j) == j[JType(j)]

JNull == Json("null", << >>)

\* the member of an object, None when the object has no such member
Member(obj, name) ==
    IF name \in DOMAIN JValue(obj) THEN Some(JValue(obj)[name]) ELSE None

----------------------------------------------------------------------------
(* url::Url::parse and Url::query_pairs, as pagination.rs uses them *)

UrlSyntax == {":", "/", "?", "#", "&", "=", "+", "-", ".", " ", "%3D", "%2B", "%63"}

\* Url::parse(text): a URL has a scheme followed by ":" (without one the
\* text is a relative reference, and there is no base to resolve it
\* against); a special scheme needs a host after its slashes; the query is
\* the text between the first "?" and the fragment
UrlParse(text) ==
    LET f == Find(text, "#")
        noFragment == IF f = 0 THEN text ELSE SubSeq(text, 1, f - 1)
        q == Find(noFragment, "?")
        head == IF q = 0 THEN noFragment ELSE SubSeq(noFragment, 1, q - 1)
        hostless == \A i \in 3..Len(head) : head[i] = "/" \/
                        (head[i] \in UrlSyntax /\ \A j \in 3..(i - 1) : head[j] = "/")
    IN  IF Len(head) < 2 \/ head[1] \in UrlSyntax \cup DOMAIN DigitValue
           \/ head[2] # ":"
        THEN ErrUrl
        ELSE IF head[1] \in {"https", "http"} /\ hostless
        THEN ErrUrl
        ELSE Ok([scheme |-> head[1],
                 query |-> IF q = 0 THEN None
                           ELSE Some(SubSeq(noFragment, q + 1, Len(noFragment)))])

\* Url::query_pairs: the query is split at "&", empty parts are skipped,
\* each part is split at its first "=", and name and value are decoded
\* ("+" is a space, an escape is the character it names); a pair is
\* <<name, pieces of the value>>
query_pairs(u) ==
    LET Decode(s) ==
            [i \in 1..Len(s) |->
                CASE s[i] = "+" -> " "
                  [] s[i] = "%3D" -> "="
                  [] s[i] = "%2B" -> "+"
                  [] s[i] = "%63" -> "c"
                  [] OTHER -> s[i]]
    IN  IF IsNone(u.query) THEN << >>
        ELSE LET parts == SelectSeq(Split(u.query.v, "&"), LAMBDA part : part # << >>)
             IN  [i \in 1..Len(parts) |->
                    LET e == Find(parts[i], "=")
                    IN  IF e = 0
                        THEN <<Concat(Decode(parts[i])), << >> >>
                        ELSE <<Concat(Decode(SubSeq(parts[i], 1, e - 1))),
                               Decode(SubSeq(parts[i], e + 1, Len(parts[i])))>>]

\* the names of a sequence of pairs
Names(pairs) == [i \in 1..Len(pairs) |-> pairs[i][1]]

----------------------------------------------------------------------------
(* src/src/models/pagination.rs *)

\* a panic of the calling thread (an arithmetic operation that has no value)
Panic == [kind |-> "panic"]

\* usize::div_ceil: a division, which panics for the divisor 0
DivCeil(a, b) ==
    IF b = 0 THEN Panic
    ELSE IF a % b > 0 THEN (a \div b) + 1 ELSE a \div b

PaginatedResponse_has_next(e) == IsSome(e.next)
PaginatedResponse_has_previous(e) == IsSome(e.previous)

\* total_pages with truncating division
total_pagesTruncating(e, page_size) ==
    IF IsNone(e.count) THEN None
    ELSE IF page_size = 0 THEN Panic
    ELSE Some(e.count.v \div page_size)

\* self.count.map(|c| (c as usize).div_ceil(page_size)); the counts of the
\* model are not negative, where c as usize is c
total_pages(e, page_size) ==
    IF IsNone(e.count) THEN None
    ELSE IF page_size = 0 THEN DivCeil(e.count.v, page_size)
    ELSE Some(DivCeil(e.count.v, page_size))

\* has_next reading the previous link
has_nextOfPrevious(e) == IsSome(e.previous)

CursorPaginatedResponse_has_next(e) == IsSome(e.next)
CursorPaginatedResponse_has_previous(e) == IsSome(e.previous)

\* next_cursor taking the first parameter of the next URL, whatever its name
next_cursorFirstPair(e) ==
    IF IsNone(e.next) THEN None
    ELSE LET u == UrlParse(e.next.v)
         IN  IF ~IsOk(u) THEN None
             ELSE IF query_pairs(u.value) = << >> THEN None
             ELSE Some(Concat(query_pairs(u.value)[1][2]))

next_cursor(e) ==
    IF IsNone(e.next) THEN None
    ELSE LET u == UrlParse(e.next.v)
         IN  IF ~IsOk(u) THEN None
             ELSE LET pairs == query_pairs(u.value)
                      i == Find(Names(pairs), "cursor")
                  IN  IF i = 0 THEN None ELSE Some(Concat(pairs[i][2]))

\* next_page matching page_size when there is no page
next_pagePrefix(e) ==
    IF IsNone(e.next) THEN None
    ELSE LET u == UrlParse(e.next.v)
         IN  IF ~IsOk(u) THEN None
             ELSE LET pairs == query_pairs(u.value)
                      i == IF Find(Names(pairs), "page") # 0
                           THEN Find(Names(pairs), "page")
                           ELSE Find(Names(pairs), "page_size")
                  IN  IF i = 0 THEN None ELSE ParseInt(pairs[i][2], "i32")

next_page(e) ==
    IF IsNone(e.next) THEN None
    ELSE LET u == UrlParse(e.next.v)
         IN  IF ~IsOk(u) THEN None
             ELSE LET pairs == query_pairs(u.value)
                      i == Find(Names(pairs), "page")
                  IN  IF i = 0 THEN None ELSE ParseInt(pairs[i][2], "i32")

\* serde_json::from_str::<PaginatedResponse<T>> and
\* ::<CursorPaginatedResponse<T>>: results is required; count, next and
\* previous are options, for which a missing member and null are None and a
\* value of another type is an error
DeserializeEnvelope(variant, body) ==
    LET Option(name, t) ==
            IF IsNone(Member(body, name)) \/ Member(body, name).v = JNull
            THEN Ok(None)
            ELSE IF JType(Member(body, name).v) = t
            THEN Ok(Some(JValue(Member(body, name).v)))
            ELSE ErrDeserialization
        count == Option("count", "int")
        next == Option("next", "string")
        previous == Option("previous", "string")
        results == Member(body, "results")
    IN  IF IsNone(results) \/ JType(results.v) # "array" THEN ErrDeserialization
        ELSE IF ~IsOk(next) \/ ~IsOk(previous) THEN ErrDeserialization
        ELSE IF variant = "Cursor"
        THEN Ok([variant |-> variant, next |-> next.value,
                 previous |-> previous.value, results |-> JValue(results.v)])
        ELSE IF ~IsOk(count) THEN ErrDeserialization
        ELSE Ok([variant |-> variant, count |-> count.value, next |-> next.value,
                 previous |-> previous.value, results |-> JValue(results.v)])

\* Inputs: next and previous links
ApiPath == <<"https", ":", "/", "/", "host", "/", "path", "/">>

NextUrls ==
    { ApiPath \o <<"?", "cursor", "=", "abc", "1", "2", "3", "&", "page_size", "=", "1", "0">>,
      ApiPath \o <<"?", "page", "=", "2", "&", "page_size", "=", "1", "0">>,
      ApiPath \o <<"?", "page_size", "=", "1", "0">>,
      ApiPath \o <<"?", "page_size", "=", "1", "0", "&", "page", "=", "3", "&", "cursor", "=", "x", "#", "page", "=", "9">>,
      ApiPath \o <<"?", "page", "=", "abc", "&", "cursor", "=", "a", "+", "b", "%3D">>,
      ApiPath \o <<"?", "page", "=", "9", "9", "9", "9", "9", "9", "9", "9", "9", "9", "9", "&", "cursor">>,
      ApiPath \o <<"?", "page", "=", "-", "1", "&", "&", "%63", "ursor", "=", "k", "&", "cursor", "=", "z">>,
      ApiPath,
      <<"/", "path", "/", "?", "cursor", "=", "abc", "1", "2", "3", "&", "page", "=", "2">>,
      <<"https", ":", "/", "/", "?", "cursor", "=", "x", "&", "page", "=", "2">>,
      << >> }

Counts == {0, 1, 20, 25, 150}

PageSizeArguments == {0, 1, 10, 50}

\* the bodies of list responses: count, next and previous are each missing,
\* null or a value
EnvelopeBodies ==
    LET Body(given) ==
            Json("object", [m \in {g \in DOMAIN given : IsSome(given[g])} |-> given[m].v])
    IN  { Body([count |-> c, next |-> n, previous |-> p,
                results |-> Some(Json("array", <<Json("int", 1)>>))]) :
            c \in {None, Some(JNull)} \cup {Some(Json("int", k)) : k \in Counts},
            n \in {None, Some(JNull)} \cup {Some(Json("string", u)) : u \in NextUrls},
            p \in {None, Some(JNull),
                   Some(Json("string", ApiPath \o <<"?", "page", "=", "1">>))} }

EnvelopeVariants == {"Paginated", "Cursor"}

\* a library call returns: its name, its argument and its value are recorded
Call(fn, arg, value) ==
    /\ returned' = Some([fn |-> fn, arg |-> arg, value |-> value])
    /\ UNCHANGED execVars
    /\ UNCHANGED queryVars
    /\ UNCHANGED guiVars

\* the caller decodes the body of the list response it has received
from_str_envelope(variant, body) ==
    /\ IsNone(raw)
    /\ raw' = Some(body)
    /\ envelope' = IF IsOk(DeserializeEnvelope(variant, body))
                   THEN Some(DeserializeEnvelope(variant, body).value)
                   ELSE None
    /\ Call("from_str", variant, DeserializeEnvelope(variant, body))

has_next ==
    /\ IsSome(envelope)
    /\ Call("has_next", None,
            IF envelope.v.variant = "Cursor"
            THEN CursorPaginatedResponse_has_next(envelope.v)
            ELSE PaginatedResponse_has_next(envelope.v))
    /\ UNCHANGED <<envelope, raw>>

has_previous ==
    /\ IsSome(envelope)
    /\ Call("has_previous", None,
            IF envelope.v.variant = "Cursor"
            THEN CursorPaginatedResponse_has_previous(envelope.v)
            ELSE PaginatedResponse_has_previous(envelope.v))
    /\ UNCHANGED <<envelope, raw>>

TotalPages(page_size) ==
    /\ IsSome(envelope)
    /\ envelope.v.variant = "Paginated"
    /\ Call("total_pages", page_size, total_pages(envelope.v, page_size))
    /\ UNCHANGED <<envelope, raw>>

NextCursor ==
    /\ IsSome(envelope)
    /\ envelope.v.variant = "Cursor"
    /\ Call("next_cursor", None, next_cursor(envelope.v))
    /\ UNCHANGED <<envelope, raw>>

NextPage ==
    /\ IsSome(envelope)
    /\ envelope.v.variant = "Cursor"
    /\ Call("next_page", None, next_page(envelope.v))
    /\ UNCHANGED <<envelope, raw>>

NextPagination ==
    \/ \E variant \in EnvelopeVariants, body \in EnvelopeBodies :
           from_str_envelope(variant, body)
    \/ has_next
    \/ has_previous
    \/ \E page_size \in PageSizeArguments : TotalPages(page_size)
    \/ NextCursor
    \/ NextPage

SpecPagination == InitQ /\ [][NextPagination]_vars

----------------------------------------------------------------------------
(* src/src/models/serde_helpers.rs: the lenient decoders.  Each one decodes *)
(* an untagged enum, whose variants serde tries in their order: String,     *)
(* then the number or the sequence, then Null; a value that matches no      *)
(* variant is the decode error "data did not match any variant".            *)
(* An f64 is written [f64 |-> tenths]; [inf |-> sign] and [nan |-> sign]    *)
(* are the values that are no number.                                       *)

\* s.parse::<f64>().ok(), s.parse::<f32>().ok(): a sign, digits with one
\* "." among them, and at least one digit; or a sign and inf, infinity or
\* nan.  The texts of the model have at most one digit after the "." and no
\* exponent
ParseFloat(s) ==
    LET signed == s # << >> /\ s[1] \in {"+", "-"}
        body == IF signed THEN Tail(s) ELSE s
        sign == IF signed /\ s[1] = "-" THEN -1 ELSE 1
        dot == Find(body, ".")
        whole == IF dot = 0 THEN body ELSE SubSeq(body, 1, dot - 1)
        fraction == IF dot = 0 THEN << >> ELSE SubSeq(body, dot + 1, Len(body))
        AllDigits(x) == \A i \in 1..Len(x) : x[i] \in DOMAIN DigitValue
        special == body \in {<<"inf">>, <<"infinity">>, <<"nan">>}
        number == (whole \o fraction) # << >> /\ AllDigits(whole) /\ AllDigits(fraction)
    IN  CASE special -> Some(Json(IF body = <<"nan">> THEN "nan" ELSE "inf", sign))
          [] ~special /\ ~number -> None
          [] ~special /\ number /\ Len(fraction) <= 1 ->
               Some(Json("f64",
                    sign * ((ParseDigits(whole, 1, 0, 1, <<IntRange("i32")[2] \div 100, 0>>).v * 10)
                            + (IF fraction = << >> THEN 0 ELSE DigitValue[fraction[1]]))))

\* n as i32, n as u32, n as i16: the value modulo the width of the type
Cast(n, type) ==
    LET min == IntRange(type)[1]
        max == IntRange(type)[2]
    IN  IF min <= n /\ n <= max THEN n
        ELSE ((n - min) % ((max - min) + 1)) + min

\* deserialize_optional_f64 without the guard for the empty string, treating
\* a blank as the number 0
deserialize_optional_f64BlankIsZero(j) ==
    CASE JType(j) = "string" ->
           IF JValue(j) = << >> THEN Ok(Some(Json("f64", 0))) ELSE Ok(ParseFloat(JValue(j)))
      [] JType(j) = "int" -> Ok(Some(Json("f64", JValue(j) * 10)))
      [] JType(j) = "frac" -> Ok(Some(Json("f64", JValue(j))))
      [] JType(j) = "null" -> Ok(None)
      [] OTHER -> ErrDeserialization

deserialize_optional_f64(j) ==
    CASE JType(j) = "string" ->
           IF JValue(j) = << >> THEN Ok(None) ELSE Ok(ParseFloat(JValue(j)))
      [] JType(j) = "int" -> Ok(Some(Json("f64", JValue(j) * 10)))
      [] JType(j) = "frac" -> Ok(Some(Json("f64", JValue(j))))
      [] JType(j) = "null" -> Ok(None)
      [] OTHER -> ErrDeserialization

\* Number(f64) and n as f32: the rounding to an f32 is not in the tenths of
\* the model
deserialize_optional_f32(j) ==
    CASE JType(j) = "string" ->
           IF JValue(j) = << >> THEN Ok(None) ELSE Ok(ParseFloat(JValue(j)))
      [] JType(j) = "int" -> Ok(Some(Json("f64", JValue(j) * 10)))
      [] JType(j) = "frac" -> Ok(Some(Json("f64", JValue(j))))
      [] JType(j) = "null" -> Ok(None)
      [] OTHER -> ErrDeserialization

\* Number(i64): a number with a fraction is no i64
deserialize_optional_i32(j) ==
    CASE JType(j) = "string" ->
           IF JValue(j) = << >> THEN Ok(None) ELSE Ok(ParseInt(JValue(j), "i32"))
      [] JType(j) = "int" -> Ok(Some(Cast(JValue(j), "i32")))
      [] JType(j) = "null" -> Ok(None)
      [] OTHER -> ErrDeserialization

\* deserialize_optional_vec_string dropping a bare string
deserialize_optional_vec_stringDropsBare(j) ==
    CASE JType(j) = "string" -> Ok(None)
      [] JType(j) = "array"
           /\ \A i \in 1..Len(JValue(j)) : JType(JValue(j)[i]) = "string" ->
           Ok(Some([i \in 1..Len(JValue(j)) |-> JValue(JValue(j)[i])]))
      [] JType(j) = "null" -> Ok(None)
      [] OTHER -> ErrDeserialization

\* Vec(Vec<String>): an array all of whose elements are strings
deserialize_optional_vec_string(j) ==
    CASE JType(j) = "string" ->
           IF JValue(j) = << >> THEN Ok(None) ELSE Ok(Some(<<JValue(j)>>))
      [] JType(j) = "array"
           /\ \A i \in 1..Len(JValue(j)) : JType(JValue(j)[i]) = "string" ->
           Ok(Some([i \in 1..Len(JValue(j)) |-> JValue(JValue(j)[i])]))
      [] JType(j) = "null" -> Ok(None)
      [] OTHER -> ErrDeserialization

\* Vec(Vec<i32>): an array all of whose elements are integers
deserialize_optional_vec_i32(j) ==
    CASE JType(j) = "string" -> Ok(None)
      [] JType(j) = "array"
           /\ \A i \in 1..Len(JValue(j)) : JType(JValue(j)[i]) = "int" ->
           Ok(Some([i \in 1..Len(JValue(j)) |-> JValue(JValue(j)[i])]))
      [] JType(j) = "null" -> Ok(None)
      [] OTHER -> ErrDeserialization

\* Number(u64): a negative number is no u64
deserialize_optional_u32(j) ==
    CASE JType(j) = "string" ->
           IF JValue(j) = << >> THEN Ok(None) ELSE Ok(ParseInt(JValue(j), "u32"))
      [] JType(j) = "int" /\ JValue(j) >= 0 -> Ok(Some(Cast(JValue(j), "u32")))
      [] JType(j) = "null" -> Ok(None)
      [] OTHER -> ErrDeserialization

deserialize_optional_i16(j) ==
    CASE JType(j) = "string" ->
           IF JValue(j) = << >> THEN Ok(None) ELSE Ok(ParseInt(JValue(j), "i16"))
      [] JType(j) = "int" -> Ok(Some(Cast(JValue(j), "i16")))
      [] JType(j) = "null" -> Ok(None)
      [] OTHER -> ErrDeserialization

RECURSIVE Deserialize(_, _)

\* deserialize_optional_vec wrapping a bare string in a sequence
deserialize_optional_vecWrapsBare(T, j) ==
    CASE JType(j) = "string" ->
           IF JValue(j) = << >> THEN Ok(None) ELSE Ok(Some(<<JValue(j)>>))
      [] JType(j) = "array"
           /\ \A i \in 1..Len(JValue(j)) : IsOk(Deserialize(T, JValue(j)[i])) ->
           Ok(Some([i \in 1..Len(JValue(j)) |-> Deserialize(T, JValue(j)[i]).value]))
      [] JType(j) = "null" -> Ok(None)
      [] OTHER -> ErrDeserialization

\* Vec(Vec<T>): an array all of whose elements decode as T
deserialize_optional_vec(T, j) ==
    CASE JType(j) = "string" -> Ok(None)
      [] JType(j) = "array"
           /\ \A i \in 1..Len(JValue(j)) : IsOk(Deserialize(T, JValue(j)[i])) ->
           Ok(Some([i \in 1..Len(JValue(j)) |-> Deserialize(T, JValue(j)[i]).value]))
      [] JType(j) = "null" -> Ok(None)
      [] OTHER -> ErrDeserialization

NumericDecoders ==
    {"deserialize_optional_f64", "deserialize_optional_f32", "deserialize_optional_i32",
     "deserialize_optional_u32", "deserialize_optional_i16"}

\* #[serde(deserialize_with = "...")] on a member of the type Option<..>
DeserializeWith(decoder, type, j) ==
    CASE decoder = "deserialize_optional_f64" -> deserialize_optional_f64(j)
      [] decoder = "deserialize_optional_f32" -> deserialize_optional_f32(j)
      [] decoder = "deserialize_optional_i32" -> deserialize_optional_i32(j)
      [] decoder = "deserialize_optional_u32" -> deserialize_optional_u32(j)
      [] decoder = "deserialize_optional_i16" -> deserialize_optional_i16(j)
      [] decoder = "deserialize_optional_vec_string" -> deserialize_optional_vec_string(j)
      [] decoder = "deserialize_optional_vec_i32" -> deserialize_optional_vec_i32(j)
      [] decoder = "deserialize_optional_vec" ->
           deserialize_optional_vec(SubSeq(type, 3, Len(type)), j)

----------------------------------------------------------------------------
(* src/src/models: the domain records and #[derive(Deserialize)] *)

\* the members of the records, in their order: name, type (written from the
\* outside in: Option<Vec<String>> is <<"Option", "Vec", "String">>),
\* whether #[serde(default)] is given, and the deserialize_with function
StructFields(struct) ==
    LET Plain(name, type) ==
            [name |-> name, type |-> type, default |-> FALSE, with |-> ""]
        Default(name, type) ==
            [name |-> name, type |-> type, default |-> TRUE, with |-> ""]
        With(name, type, decoder) ==
            [name |-> name, type |-> type, default |-> TRUE, with |-> decoder]
    IN  CASE struct = "Country" ->
               <<Plain("id", <<"i32">>), Plain("text", <<"String">>),
                 Plain("continent", <<"String">>), Plain("iso", <<"String">>),
                 Plain("latdir", <<"String">>), Plain("longdir", <<"String">>)>>
          [] struct = "Geomaterial" ->
               <<Plain("id", <<"i32">>),
                 Default("longid", <<"Option", "String">>),
                 Default("guid", <<"Option", "String">>),
                 Plain("name", <<"Option", "String">>),
                 Default("updttime", <<"Option", "String">>),
                 Default("mindat_formula", <<"Option", "String">>),
                 Default("mindat_formula_note", <<"Option", "String">>),
                 Default("ima_formula", <<"Option", "String">>),
                 With("ima_status", <<"Option", "Vec", "String">>, "deserialize_optional_vec_string"),
                 With("ima_notes", <<"Option", "Vec", "String">>, "deserialize_optional_vec_string"),
                 With("varietyof", <<"Option", "i32">>, "deserialize_optional_i32"),
                 With("synid", <<"Option", "i32">>, "deserialize_optional_i32"),
                 With("polytypeof", <<"Option", "i32">>, "deserialize_optional_i32"),
                 With("groupid", <<"Option", "i32">>, "deserialize_optional_i32"),
                 With("entrytype", <<"Option", "i32">>, "deserialize_optional_i32"),
                 Default("entrytype_text", <<"Option", "String">>),
                 Default("description_short", <<"Option", "String">>),
                 Default("impurities", <<"Option", "String">>),
                 With("elements", <<"Option", "Vec", "String">>, "deserialize_optional_vec_string"),
                 With("sigelements", <<"Option", "Vec", "String">>, "deserialize_optional_vec_string"),
                 With("key_elements", <<"Option", "Vec", "String">>, "deserialize_optional_vec_string"),
                 Default("tlform", <<"Option", "String">>),
                 Default("cim", <<"Option", "String">>),
                 Default("occurrence", <<"Option", "String">>),
                 Default("otheroccurrence", <<"Option", "String">>),
                 Default("industrial", <<"Option", "String">>),
                 Default("discovery_year", <<"Option", "String">>),
                 With("approval_year", <<"Option", "u32">>, "deserialize_optional_u32"),
                 With("publication_year", <<"Option", "u32">>, "deserialize_optional_u32"),
                 Default("ima_history", <<"Option", "String">>),
                 Default("diapheny", <<"Option", "String">>),
                 Default("cleavage", <<"Option", "String">>),
                 Default("cleavagetype", <<"Option", "String">>),
                 Default("parting", <<"Option", "String">>),
                 Default("tenacity", <<"Option", "String">>),
                 Default("colour", <<"Option", "String">>),
                 With("csmetamict", <<"Option", "i32">>, "deserialize_optional_i32"),
                 Default("opticalextinction", <<"Option", "String">>),
                 With("hmin", <<"Option", "f64">>, "deserialize_optional_f64"),
                 With("hmax", <<"Option", "f64">>, "deserialize_optional_f64"),
                 With("hardtype", <<"Option", "i32">>, "deserialize_optional_i32"),
                 Default("vhnmin", <<"Option", "String">>),
                 Default("vhnmax", <<"Option", "String">>),
                 With("vhnerror", <<"Option", "i32">>, "deserialize_optional_i32"),
                 With("vhng", <<"Option", "i32">>, "deserialize_optional_i32"),
                 With("vhns", <<"Option", "i32">>, "deserialize_optional_i32"),
                 Default("luminescence", <<"Option", "String">>),
                 Default("lustre", <<"Option", "String">>),
                 Default("lustretype", <<"Option", "String">>),
                 Default("aboutname", <<"Option", "String">>),
                 Default("other", <<"Option", "String">>),
                 Default("streak", <<"Option", "String">>),
                 Default("csystem", <<"Option", "String">>),
                 With("cclass", <<"Option", "i32">>, "deserialize_optional_i32"),
                 With("spacegroup", <<"Option", "i32">>, "deserialize_optional_i32"),
                 Default("spacegroupset", <<"Option", "String">>),
                 Default("a", <<"Option", "String">>),
                 Default("b", <<"Option", "String">>),
                 Default("c", <<"Option", "String">>),
                 Default("alpha", <<"Option", "String">>),
                 Default("beta", <<"Option", "String">>),
                 Default("gamma", <<"Option", "String">>),
                 With("va3", <<"Option", "f64">>, "deserialize_optional_f64"),
                 With("z", <<"Option", "i32">>, "deserialize_optional_i32"),
                 Default("dmeas", <<"Option", "String">>),
                 Default("dmeas2", <<"Option", "String">>),
                 Default("dcalc", <<"Option", "String">>),
                 Default("fracturetype", <<"Option", "String">>),
                 Default("morphology", <<"Option", "String">>),
                 Default("twinning", <<"Option", "String">>),
                 Default("epitaxidescription", <<"Option", "String">>),
                 Default("opticaltype", <<"Option", "String">>),
                 Default("opticalsign", <<"Option", "String">>),
                 Default("opticalalpha", <<"Option", "String">>),
                 Default("opticalbeta", <<"Option", "String">>),
                 Default("opticalgamma", <<"Option", "String">>),
                 Default("opticalomega", <<"Option", "String">>),
                 Default("opticalepsilon", <<"Option", "String">>),
                 Default("opticaln", <<"Option", "String">>),
                 Default("optical2vcalc", <<"Option", "String">>),
                 Default("optical2vmeasured", <<"Option", "String">>),
                 Default("opticaldispersion", <<"Option", "String">>),
                 Default("opticalpleochroism", <<"Option", "String">>),
                 Default("opticalpleochorismdesc", <<"Option", "String">>),
                 Default("opticalbirefringence", <<"Option", "String">>),
                 Default("opticalcomments", <<"Option", "String">>),
                 Default("opticalcolour", <<"Option", "String">>),
                 Default("opticalinternal", <<"Option", "String">>),
                 Default("opticaltropic", <<"Option", "String">>),
                 Default("opticalanisotropism", <<"Option", "String">>),
                 Default("opticalbireflectance", <<"Option", "String">>),
                 Default("opticalr", <<"Option", "String">>),
                 With("rimin", <<"Option", "f64">>, "deserialize_optional_f64"),
                 With("rimax", <<"Option", "f64">>, "deserialize_optional_f64"),
                 Default("uv", <<"Option", "String">>),
                 Default("ir", <<"Option", "String">>),
                 Default("magnetism", <<"Option", "String">>),
                 Default("type_specimen_store", <<"Option", "String">>),
                 Default("shortcode_ima", <<"Option", "String">>),
                 Default("strunz10ed1", <<"Option", "String">>),
                 Default("strunz10ed2", <<"Option", "String">>),
                 Default("strunz10ed3", <<"Option", "String">>),
                 Default("strunz10ed4", <<"Option", "String">>),
                 Default("dana8ed1", <<"Option", "String">>),
                 Default("dana8ed2", <<"Option", "String">>),
                 Default("dana8ed3", <<"Option", "String">>),
                 Default("dana8ed4", <<"Option", "String">>),
                 Default("thermalbehaviour", <<"Option", "String">>),
                 Default("electrical", <<"Option", "String">>),
                 With("rock_parent", <<"Option", "i32">>, "deserialize_optional_i32"),
                 With("rock_parent2", <<"Option", "i32">>, "deserialize_optional_i32"),
                 With("rock_root", <<"Option", "i32">>, "deserialize_optional_i32"),
                 Default("rock_bgs_code", <<"Option", "String">>),
                 Default("meteoritical_code", <<"Option", "String">>),
                 With("weighting", <<"Option", "i32">>, "deserialize_optional_i32"),
                 With("relations", <<"Option", "Vec", "struct", "Relation">>, "deserialize_optional_vec"),
                 Default("minstats", <<"Option", "struct", "MinStats">>),
                 With("locality", <<"Option", "Vec", "i32">>, "deserialize_optional_vec_i32"),
                 With("type_localities", <<"Option", "Vec", "i32">>, "deserialize_optional_vec_i32")>>
          [] struct = "Locality" ->
               <<Plain("id", <<"i32">>),
                 Default("longid", <<"Option", "String">>),
                 Default("guid", <<"Option", "String">>),
                 Default("txt", <<"Option", "String">>),
                 Default("revtxtd", <<"Option", "String">>),
                 Default("description_short", <<"Option", "String">>),
                 With("latitude", <<"Option", "f64">>, "deserialize_optional_f64"),
                 With("longitude", <<"Option", "f64">>, "deserialize_optional_f64"),
                 Default("langtxt", <<"Option", "String">>),
                 Default("dateadd", <<"Option", "String">>),
                 Default("datemodify", <<"Option", "String">>),
                 Default("elements", <<"Option", "String">>),
                 Default("country", <<"Option", "String">>),
                 Default("refs", <<"Option", "String">>),
                 With("coordsystem", <<"Option", "i32">>, "deserialize_optional_i32"),
                 With("parent", <<"Option", "i32">>, "deserialize_optional_i32"),
                 Default("links", <<"Option", "String">>),
                 With("area", <<"Option", "i32">>, "deserialize_optional_i32"),
                 With("non_hierarchical", <<"Option", "i32">>, "deserialize_optional_i32"),
                 With("age", <<"Option", "i32">>, "deserialize_optional_i32"),
                 With("meteorite_type", <<"Option", "i32">>, "deserialize_optional_i32"),
                 With("company", <<"Option", "i32">>, "deserialize_optional_i32"),
                 With("company2", <<"Option", "i32">>, "deserialize_optional_i32"),
                 With("loc_status", <<"Option", "i32">>, "deserialize_optional_i32"),
                 With("loc_group", <<"Option", "i32">>, "deserialize_optional_i32"),
                 Default("status_year", <<"Option", "String">>),
                 Default("company_year", <<"Option", "String">>),
                 With("discovered_before", <<"Option", "i32">>, "deserialize_optional_i32"),
                 With("discovery_year", <<"Option", "i32">>, "deserialize_optional_i32"),
                 Default("discovery_year_type", <<"Option", "String">>),
                 With("level", <<"Option", "i32">>, "deserialize_optional_i32"),
                 Default("locsinclude", <<"Option", "String">>),
                 Default("locsexclude", <<"Option", "String">>),
                 Default("wikipedia", <<"Option", "String">>),
                 Default("osmid", <<"Option", "String">>),
                 With("geonames", <<"Option", "i32">>, "deserialize_optional_i32"),
                 Default("timestamp", <<"Option", "String">>),
                 With("geomaterials", <<"Option", "Vec", "i32">>, "deserialize_optional_vec_i32")>>
          [] struct = "ImaMaterial" ->
               <<Plain("id", <<"i32">>),
                 Default("name", <<"Option", "String">>),
                 Default("ima_formula", <<"Option", "String">>),
                 Default("ima_symbol", <<"Option", "String">>),
                 Default("ima_year", <<"Option", "String">>),
                 Default("discovery_year", <<"Option", "String">>),
                 With("ima_status", <<"Option", "Vec", "String">>, "deserialize_optional_vec_string"),
                 With("ima_notes", <<"Option", "Vec", "String">>, "deserialize_optional_vec_string"),
                 Default("type_specimen_store", <<"Option", "String">>),
                 Default("mindat_longid", <<"Option", "String">>),
                 Default("mindat_guid", <<"Option", "String">>),
                 With("type_localities", <<"Option", "Vec", "i32">>, "deserialize_optional_vec_i32"),
                 Default("description_short", <<"Option", "String">>),
                 Default("mindat_formula", <<"Option", "String">>),
                 Default("mindat_formula_note", <<"Option", "String">>)>>
          [] struct = "LocalityStatus" ->
               <<Plain("ls_id", <<"i32">>), Plain("ls_text", <<"String">>),
                 With("ls_historical", <<"Option", "i32">>, "deserialize_optional_i32"),
                 With("ls_wide", <<"Option", "i32">>, "deserialize_optional_i32")>>
          [] struct = "LocalityType" ->
               <<Plain("lt_id", <<"i32">>), Plain("lt_text", <<"String">>),
                 With("lt_parent", <<"Option", "i32">>, "deserialize_optional_i32"),
                 With("lt_sortorder", <<"Option", "i16">>, "deserialize_optional_i16"),
                 With("lt_erratic", <<"Option", "i32">>, "deserialize_optional_i32"),
                 With("lt_area", <<"Option", "i32">>, "deserialize_optional_i32"),
                 With("lt_underground", <<"Option", "i32">>, "deserialize_optional_i32")>>
          [] struct = "Relation" ->
               <<Plain("mineral_id", <<"i32">>),
                 Plain("relation_type", <<"i32">>),
                 Plain("relation_type_text", <<"String">>)>>
          [] struct = "MinStats" ->
               <<Plain("ms_photos", <<"i32">>),
                 Plain("ms_locentries", <<"i32">>),
                 Plain("ms_photovotes", <<"i32">>)>>

\* Deserialize for the types of members and elements; a record is given as
\* a JSON object
Deserialize(type, j) ==
    CASE type[1] = "Option" ->
           IF j = JNull THEN Ok(None)
           ELSE IF IsOk(Deserialize(Tail(type), j))
           THEN Ok(Some(Deserialize(Tail(type), j).value))
           ELSE ErrDeserialization
      [] type[1] = "Vec" ->
           IF JType(j) = "array"
              /\ \A i \in 1..Len(JValue(j)) : IsOk(Deserialize(Tail(type), JValue(j)[i]))
           THEN Ok([i \in 1..Len(JValue(j)) |-> Deserialize(Tail(type), JValue(j)[i]).value])
           ELSE ErrDeserialization
      [] type[1] = "String" ->
           IF JType(j) = "string" THEN Ok(JValue(j)) ELSE ErrDeserialization
      [] type[1] = "i32" ->
           IF JType(j) = "int" THEN Ok(JValue(j)) ELSE ErrDeserialization
      [] type[1] = "struct" /\ JType(j) = "object" ->
           LET fields == StructFields(type[2])
               Field(f) ==
                   IF IsNone(Member(j, f.name))
                   THEN IF f.default \/ f.type[1] = "Option" THEN Ok(None)
                        ELSE ErrDeserialization
                   ELSE IF f.with # ""
                   THEN DeserializeWith(f.with, f.type, Member(j, f.name).v)
                   ELSE Deserialize(f.type, Member(j, f.name).v)
           IN  IF \A i \in 1..Len(fields) : IsOk(Field(fields[i]))
               THEN Ok([i \in 1..Len(fields) |-> Field(fields[i]).value])
               ELSE ErrDeserialization
      [] type[1] = "struct" /\ JType(j) \notin {"object", "array"} ->
           ErrDeserialization

\* Inputs: a well-formed value of a type
RECURSIVE Sample(_)
Sample(type) ==
    CASE type[1] = "Option" -> Sample(Tail(type))
      [] type[1] = "Vec" -> Json("array", <<Sample(Tail(type))>>)
      [] type[1] = "String" -> Json("string", <<"x">>)
      [] type[1] \in {"f64", "f32"} -> Json("frac", 75)
      [] type[1] \in {"i32", "u32", "i16"} -> Json("int", 1)
      [] type[1] = "struct" ->
           LET fields == StructFields(type[2])
           IN  Json("object",
                    [n \in {fields[i].name : i \in 1..Len(fields)} |->
                        Sample(fields[Find([i \in 1..Len(fields) |-> fields[i].name], n)].type)])

DomainRecords ==
    {"Geomaterial", "Locality", "ImaMaterial", "Country", "LocalityStatus", "LocalityType"}

\* Inputs: the bodies of a record: the well-formed one, and the ones that
\* differ from it in one member other than the identifier (the first
\* member), which is missing, null or the empty string
RecordBodies(struct) ==
    LET full == JValue(Sample(<<"struct", struct>>))
        id == StructFields(struct)[1].name
    IN  {Json("object", full)}
        \cup {Json("object", [n \in (DOMAIN full) \ {m} |-> full[n]]) : m \in (DOMAIN full) \ {id}}
        \cup {Json("object", [full EXCEPT ![m] = v]) :
                m \in (DOMAIN full) \ {id}, v \in {JNull, Json("string", << >>)}}

\* Inputs: the raw values offered to a decoder: null, true, 7, -3, 40000,
\* 7.5, "", "7", "7.5", "-3", "+5", " 7", "40000", "abc", "Au", [], ["Au",
\* "Ag"], [1, 2], [1, "Au"], [7.5], an array of one relation, and {}
RawValues ==
    { JNull, Json("bool", TRUE), Json("int", 7), Json("int", -3), Json("int", 40000),
      Json("frac", 75),
      Json("string", << >>), Json("string", <<"7">>), Json("string", <<"7", ".", "5">>),
      Json("string", <<"-", "3">>), Json("string", <<"+", "5">>),
      Json("string", <<" ", "7">>), Json("string", <<"4", "0", "0", "0", "0">>),
      Json("string", <<"abc">>), Json("string", <<"Au">>),
      Json("array", << >>),
      Json("array", <<Json("string", <<"Au">>), Json("string", <<"Ag">>)>>),
      Json("array", <<Json("int", 1), Json("int", 2)>>),
      Json("array", <<Json("int", 1), Json("string", <<"Au">>)>>),
      Json("array", <<Json("frac", 75)>>),
      Sample(<<"Vec", "struct", "Relation">>),
      Json("object", << >>) }

\* the decoders, each with the type of a member it decodes
Decoders ==
    { <<"deserialize_optional_f64", <<"Option", "f64">> >>,
      <<"deserialize_optional_f32", <<"Option", "f32">> >>,
      <<"deserialize_optional_i32", <<"Option", "i32">> >>,
      <<"deserialize_optional_u32", <<"Option", "u32">> >>,
      <<"deserialize_optional_i16", <<"Option", "i16">> >>,
      <<"deserialize_optional_vec_string", <<"Option", "Vec", "String">> >>,
      <<"deserialize_optional_vec_i32", <<"Option", "Vec", "i32">> >>,
      <<"deserialize_optional_vec", <<"Option", "Vec", "struct", "Relation">> >> }

\* a member with a deserialize_with function is decoded from a raw value
deserialize_with(decoder, type, j) ==
    /\ IsNone(raw)
    /\ raw' = Some(j)
    /\ Call(decoder, type, DeserializeWith(decoder, type, j))
    /\ UNCHANGED envelope

\* the body of a response is decoded as a record
from_str_record(struct, body) ==
    /\ IsNone(raw)
    /\ raw' = Some(body)
    /\ Call("from_str", struct, Deserialize(<<"struct", struct>>, body))
    /\ UNCHANGED envelope

NextDecode ==
    \/ \E d \in Decoders, j \in RawValues : deserialize_with(d[1], d[2], j)
    \/ \E struct \in DomainRecords :
           \E body \in RecordBodies(struct) : from_str_record(struct, body)

SpecDecode == InitQ /\ [][NextDecode]_vars

----------------------------------------------------------------------------
(* Claims about the request executor, checked under SpecExec *)

\* the call has returned after receiving a response
Answered == pc = "done" /\ IsSome(response) /\ IsSome(result)

\* C1 (as stated): for every non-2xx response the error is chosen by the
\* status code alone, and 404 and the generic Api error carry the body text
\* of the response.
C1_AsStated ==
    (Answered /\ ~IsSuccess(response.v.status)) =>
        result.v = CASE response.v.status = 401 -> ErrAuthenticationRequired
                     [] response.v.status = 404 -> ErrNotFound(response.v.body)
                     [] response.v.status = 429 -> ErrRateLimited
                     [] OTHER -> ErrApi(response.v.status, response.v.body)

\* C1 (amended): for every non-2xx response the error kind is chosen by the
\* status code alone and is never a decoded value; NotFound and Api carry the
\* body text when the body can be read, and the text "Unknown error" when
\* reading the body fails.
C1_StatusClassification ==
    (Answered /\ ~IsSuccess(response.v.status)) =>
        LET message == IF response.v.readable THEN response.v.body
                       ELSE "Unknown error"
        IN  /\ ~IsOk(result.v)
            /\ result.v =
                 CASE response.v.status = 401 -> ErrAuthenticationRequired
                   [] response.v.status = 404 -> ErrNotFound(message)
                   [] response.v.status = 429 -> ErrRateLimited
                   [] OTHER -> ErrApi(response.v.status, message)

\* a 404 whose body "Not found" could not be read has been classified
C1_Witness ==
    /\ Answered
    /\ response.v.status = 404
    /\ response.v.body = "Not found"
    /\ ~response.v.readable
    /\ result.v = ErrNotFound("Unknown error")

C3_Headers ==
    /\ IsSome(request) =>
         /\ request.v.headers.user_agent = Some(USER_AGENT_STRING)
         /\ request.v.headers.accept = Some("application/json")
         /\ IsSome(request.v.headers.authorization) <=> IsSome(token)
         /\ IsSome(token) =>
              request.v.headers.authorization = Some(TokenPrefix \o token.v)
    /\ (IsNone(token) /\ base_url.base /\ pc # "idle") =>
         (IsSome(request) /\ nsent = 1)

\* a client without a token has sent a request, with no Authorization header
C3_Witness ==
    /\ IsSome(request)
    /\ IsNone(token)
    /\ IsNone(request.v.headers.authorization)
    /\ pc = "awaiting"

\* C4: a call sends at most one HTTP request; once a response has arrived or
\* the transport has failed, the call has returned, whatever the outcome.
C4_OneRequestPerCall ==
    /\ nsent <= 1
    /\ (IsSome(response) \/ IsSome(result)) => pc = "done"
    /\ pc = "done" => IsSome(result)
    /\ pc = "awaiting" => nsent = 1

\* a rate-limited call has returned after its single request
C4_Witness ==
    /\ pc = "done"
    /\ nsent = 1
    /\ IsSome(result)
    /\ result.v = ErrRateLimited

----------------------------------------------------------------------------
(* Claims about the query models, checked under SpecQuery *)

\* the request issued for the query model that was built
Issued == IsSome(query) /\ IsSome(request)

\* the value of the parameter called name in a list of name=value pairs
ParamOf(pairs, name) ==
    IF \E i \in 1..Len(pairs) : pairs[i][1] = name
    THEN Some(pairs[CHOOSE i \in 1..Len(pairs) : pairs[i][1] = name][2])
    ELSE None

QuartzIma ==
    GeomaterialsQuery_ima_approved(
        GeomaterialsQuery_name(GeomaterialsQuery_new, "quartz"), TRUE)

\* C5: a parameter is in the issued request only if the field of the query
\* model with its name is set, and no parameter is repeated; the geomaterials
\* model built by new().name("quartz").ima_approved(true) is issued as exactly
\* name=quartz and ima=true.
C5_UnsetNeverSerialized ==
    Issued =>
        /\ \A i \in 1..Len(request.v.query) :
             /\ request.v.query[i][1] \in DOMAIN query.v
             /\ IsSome(query.v[request.v.query[i][1]])
             /\ \A j \in 1..Len(request.v.query) :
                  request.v.query[j][1] = request.v.query[i][1] => j = i
        /\ (family = "geomaterials" /\ query.v = QuartzIma) =>
             request.v.query = << <<"name", "quartz">>, <<"ima", "true">> >>

\* the request of new().name("quartz").ima_approved(true) has been issued
C5_Witness ==
    /\ Issued
    /\ family = "geomaterials"
    /\ query.v = QuartzIma
    /\ Len(request.v.query) = 2

\* C6 (as stated): every field of the query model that is set when the model
\* is handed to the client method is a parameter of the issued request.
C6_AsStated ==
    Issued =>
        \A f \in DOMAIN query.v :
            IsSome(query.v[f]) => IsSome(ParamOf(request.v.query, f))

\* C7 (as stated): no parameter of an issued request has an empty value.
C7_AsStated ==
    Issued =>
        \A i \in 1..Len(request.v.query) : request.v.query[i][2] # ""

\* C8: in a GeomaterialsQuery built by setter calls from new(), hardness_min
\* is set exactly when hardness_max is, and density_min exactly when
\* density_max is; the issued request carries both bounds of a range or
\* neither.
C8_RangesAtomic ==
    family = "geomaterials" =>
        /\ IsSome(query.v.hardness_min) <=> IsSome(query.v.hardness_max)
        /\ IsSome(query.v.density_min) <=> IsSome(query.v.density_max)
        /\ IsSome(request) =>
             /\ IsSome(ParamOf(request.v.query, "hardness_min"))
                  <=> IsSome(ParamOf(request.v.query, "hardness_max"))
             /\ IsSome(ParamOf(request.v.query, "density_min"))
                  <=> IsSome(ParamOf(request.v.query, "density_max"))

\* a request carrying both hardness bounds and no density bound
C8_Witness ==
    /\ family = "geomaterials"
    /\ Issued
    /\ ParamOf(request.v.query, "hardness_min") = Some("6.0")
    /\ ParamOf(request.v.query, "hardness_max") = Some("7.0")
    /\ IsNone(ParamOf(request.v.query, "density_min"))

\* C9 (as stated): a GeomaterialsQuery or ImaMineralsQuery never holds, and
\* the issued request never carries, a page_size that is zero or negative.
C9_AsStated ==
    family \in {"geomaterials", "minerals_ima"} =>
        /\ IsSome(query.v.page_size) => query.v.page_size.v > 0
        /\ IsSome(request) =>
             ParamOf(request.v.query, "page_size") \in
                 {None} \cup {Some(IntToString(n)) : n \in {m \in PageSizes : m > 0}}

\* C10: the ordering variant of a query is sent as its serde token, parsing
\* that token gives the variant back, and no other variant is written as
\* that token.
C10_OrderingRoundTrip ==
    (family = "geomaterials" /\ Issued /\ IsSome(query.v.ordering)) =>
        LET v == query.v.ordering.v
            sent == ParamOf(request.v.query, "ordering")
        IN  /\ sent = Some(SerdeToken(v))
            /\ DeserializeOrdering(sent.v) = Some(v)
            /\ \A w \in OrderingVariants \ {v} :
                 to_string(w) # sent.v /\ SerdeToken(w) # sent.v

\* descending update time has been sent as -updttime
C10_Witness ==
    /\ family = "geomaterials"
    /\ Issued
    /\ query.v.ordering = Some("UpdateTimeDesc")
    /\ ParamOf(request.v.query, "ordering") = Some("-updttime")

----------------------------------------------------------------------------
(* Claims about the pagination envelopes, checked under SpecPagination *)

\* the accessor fn of the envelope has returned
Accessed(fn) == IsSome(returned) /\ IsSome(envelope) /\ returned.v.fn = fn

\* the member of the decoded body is a string (not missing, not null)
BodyHasLink(name) ==
    IsSome(Member(raw.v, name)) /\ JType(Member(raw.v, name).v) = "string"

\* C11: total_pages(page_size) is absent when count is absent; for a count
\* >= 0 and a page_size >= 1 it is the least n with n * page_size >= count
\* (25 at 10 gives 3, 20 at 10 gives 2, 150 at 50 gives 3).
C11_TotalPagesCeiling ==
    Accessed("total_pages") =>
        LET count == envelope.v.count
            page_size == returned.v.arg
            pages == returned.v.value
        IN  /\ IsNone(count) => pages = None
            /\ (IsSome(count) /\ count.v >= 0 /\ page_size >= 1) =>
                 /\ pages # Panic
                 /\ IsSome(pages)
                 /\ pages.v * page_size >= count.v
                 /\ \A n \in 0..(pages.v - 1) : n * page_size < count.v
            /\ (count = Some(25) /\ page_size = 10) => pages = Some(3)
            /\ (count = Some(20) /\ page_size = 10) => pages = Some(2)
            /\ (count = Some(150) /\ page_size = 50) => pages = Some(3)

\* 25 items at page size 10 are 3 pages
C11_Witness ==
    /\ Accessed("total_pages")
    /\ envelope.v.count = Some(25)
    /\ returned.v.arg = 10
    /\ returned.v.value = Some(3)

\* C12: for both envelope variants has_next() is true exactly when next is
\* present and has_previous() exactly when previous is present; an envelope
\* decoded from a body whose next is null (or missing) reports has_next()
\* false.
C12_HasNextHasPrevious ==
    /\ Accessed("has_next") =>
         /\ returned.v.value <=> IsSome(envelope.v.next)
         /\ returned.v.value <=> BodyHasLink("next")
         /\ Member(raw.v, "next") = Some(JNull) => returned.v.value = FALSE
    /\ Accessed("has_previous") =>
         /\ returned.v.value <=> IsSome(envelope.v.previous)
         /\ returned.v.value <=> BodyHasLink("previous")

\* a cursor envelope decoded from "next": null, with a previous link, has
\* answered has_next() with false
C12_Witness ==
    /\ Accessed("has_next")
    /\ envelope.v.variant = "Cursor"
    /\ Member(raw.v, "next") = Some(JNull)
    /\ IsSome(envelope.v.previous)
    /\ returned.v.value = FALSE

\* "https://host/path/?cursor=abc123&page_size=10"
CursorExampleUrl ==
    ApiPath \o <<"?", "cursor", "=", "abc", "1", "2", "3", "&", "page_size", "=", "1", "0">>

\* the names of the query parameters of a parsed URL
ParameterNames(u) ==
    {query_pairs(u)[i][1] : i \in 1..Len(query_pairs(u))}

\* C13: next_cursor() is absent when next is absent, when next is not a
\* parseable absolute URL, and when the URL has no cursor parameter;
\* otherwise it is the value of a cursor parameter of the next URL; it never
\* fails; for "https://host/path/?cursor=abc123&page_size=10" it is "abc123".
C13_NextCursor ==
    Accessed("next_cursor") =>
        LET next == envelope.v.next
            cursor == returned.v.value
        IN  /\ cursor # Panic
            /\ IsNone(next) => cursor = None
            /\ (IsSome(next) /\ ~IsOk(UrlParse(next.v))) => cursor = None
            /\ (IsSome(next) /\ IsOk(UrlParse(next.v))) =>
                 LET pairs == query_pairs(UrlParse(next.v).value)
                 IN  IF "cursor" \in ParameterNames(UrlParse(next.v).value)
                     THEN /\ IsSome(cursor)
                          /\ \E i \in 1..Len(pairs) :
                               pairs[i][1] = "cursor" /\ cursor.v = Concat(pairs[i][2])
                     ELSE cursor = None
            /\ next = Some(CursorExampleUrl) =>
                 /\ Concat(next.v) = "https://host/path/?cursor=abc123&page_size=10"
                 /\ cursor = Some("abc123")
            /\ next = Some(ApiPath) => cursor = None
            /\ next = Some(<< >>) => cursor = None

\* the cursor of the example URL has been extracted
C13_Witness ==
    /\ Accessed("next_cursor")
    /\ envelope.v.next = Some(CursorExampleUrl)
    /\ returned.v.value = Some("abc123")

\* C14: next_page() is the integer value of the first parameter named
\* exactly page in the next URL; it is absent, and the call does not fail,
\* when next is absent or not a parseable absolute URL, when no parameter is
\* named page (page_size alone does not count), and when the value of page is
\* not a 32-bit integer.
C14_NextPage ==
    Accessed("next_page") =>
        LET next == envelope.v.next
            page == returned.v.value
        IN  /\ page # Panic
            /\ IsNone(next) => page = None
            /\ (IsSome(next) /\ ~IsOk(UrlParse(next.v))) => page = None
            /\ (IsSome(next) /\ IsOk(UrlParse(next.v))) =>
                 LET pairs == query_pairs(UrlParse(next.v).value)
                 IN  IF "page" \in ParameterNames(UrlParse(next.v).value)
                     THEN page = ParseInt(pairs[Find(Names(pairs), "page")][2], "i32")
                     ELSE page = None
            /\ next = Some(ApiPath \o <<"?", "page", "=", "2", "&", "page_size", "=", "1", "0">>)
                 => page = Some(2)
            /\ next = Some(ApiPath \o <<"?", "page_size", "=", "1", "0">>) => page = None
            /\ next = Some(CursorExampleUrl) => page = None
            /\ (IsSome(next) /\ Find(next.v, "abc") # 0 /\ Find(next.v, "abc") = Find(next.v, "page") + 2)
                 => page = None

\* a next URL with only page_size has given no page
C14_Witness ==
    /\ Accessed("next_page")
    /\ envelope.v.next = Some(ApiPath \o <<"?", "page_size", "=", "1", "0">>)
    /\ returned.v.value = None

----------------------------------------------------------------------------
(* Claims about the lenient decoders and the records, checked under        *)
(* SpecDecode                                                               *)

\* the decoder of one of the names has returned
Decoded(names) == IsSome(returned) /\ IsSome(raw) /\ returned.v.fn \in names

\* the decimal text of an integer, as pieces
RECURSIVE NatPieces(_)
NatPieces(n) ==
    IF n < 10 THEN <<Digit(n)>> ELSE NatPieces(n \div 10) \o <<Digit(n % 10)>>

IntPieces(n) == IF n < 0 THEN <<"-">> \o NatPieces(-n) ELSE NatPieces(n)

\* the value of the number n in the type a decoder returns
InTarget(n, target) ==
    IF target \in {"f64", "f32"} THEN Json("f64", n * 10) ELSE n

\* the number n is a value of the type a decoder returns
Representable(n, target) ==
    target \in {"f64", "f32"}
        \/ (IntRange(target)[1] <= n /\ n <= IntRange(target)[2])

C16_VecString ==
    Decoded({"deserialize_optional_vec_string"}) =>
        LET j == raw.v
            value == returned.v.value
        IN  /\ (JType(j) = "string" /\ JValue(j) # << >>) =>
                 value = Ok(Some(<<JValue(j)>>))
            /\ j = Json("string", << >>) => value = Ok(None)
            /\ j = JNull => value = Ok(None)
            /\ (JType(j) = "array"
                  /\ \A i \in 1..Len(JValue(j)) : JType(JValue(j)[i]) = "string") =>
                 /\ IsOk(value) /\ IsSome(value.value)
                 /\ Len(value.value.v) = Len(JValue(j))
                 /\ \A i \in 1..Len(JValue(j)) : value.value.v[i] = JValue(JValue(j)[i])
            /\ j = Json("array", <<Json("string", <<"Au">>), Json("string", <<"Ag">>)>>) =>
                 value = Ok(Some(<< <<"Au">>, <<"Ag">> >>))

\* the bare string "Au" has been decoded as ["Au"]
C16_Witness ==
    /\ Decoded({"deserialize_optional_vec_string"})
    /\ raw.v = Json("string", <<"Au">>)
    /\ returned.v.value = Ok(Some(<< <<"Au">> >>))

\* C17: deserialize_optional_vec_i32 and deserialize_optional_vec give
\* absent, never a one-element sequence and never a decode error, for a
\* bare string, empty or not; absent for null; and for an array of elements
\* of their type the sequence of these elements.
C17_VecOfOthers ==
    Decoded({"deserialize_optional_vec_i32", "deserialize_optional_vec"}) =>
        LET j == raw.v
            value == returned.v.value
        IN  /\ JType(j) = "string" => value = Ok(None)
            /\ j = JNull => value = Ok(None)
            /\ j = Json("array", << >>) => value = Ok(Some(<< >>))
            /\ (returned.v.fn = "deserialize_optional_vec_i32"
                  /\ j = Json("array", <<Json("int", 1), Json("int", 2)>>)) =>
                 value = Ok(Some(<<1, 2>>))
            /\ (returned.v.fn = "deserialize_optional_vec"
                  /\ j = Sample(<<"Vec", "struct", "Relation">>)) =>
                 /\ IsOk(value) /\ IsSome(value.value)
                 /\ Len(value.value.v) = 1
                 /\ Ok(value.value.v[1]) = Deserialize(<<"struct", "Relation">>, JValue(j)[1])

\* the bare string "Au" offered for a sequence of relations has been
\* decoded as absent
C17_Witness ==
    /\ Decoded({"deserialize_optional_vec"})
    /\ raw.v = Json("string", <<"Au">>)
    /\ returned.v.value = Ok(None)

\* C18 (as stated): every lenient decoder returns a value, present or
\* absent, and never a decode error, for every well-formed JSON value.
C18_AsStated ==
    Decoded({Decoders_d[1] : Decoders_d \in Decoders}) => IsOk(returned.v.value)

\* C19 (as stated): decoding a domain record succeeds whenever its integer
\* identifier is present and valid, whichever other single member is
\* missing, null or blank.
C19_AsStated ==
    (Decoded({"from_str"}) /\ returned.v.arg \in DomainRecords) =>
        (Member(raw.v, StructFields(returned.v.arg)[1].name) = Some(Json("int", 1))
            => IsOk(returned.v.value))

----------------------------------------------------------------------------
(* Claim about the target URL, checked under SpecExec *)

\* the segments of the whole path of a base URL, with or without its
\* trailing slash
WholePath(b) ==
    IF b.segs # << >> /\ b.segs[Len(b.segs)] = "" THEN Front(b.segs) ELSE b.segs

\* C20 (as stated): the target URL of a request is the whole path of the
\* base URL followed by the relative path, whether or not the base URL ends
\* with "/" and whether or not the path starts with "/".
C20_AsStated ==
    IsSome(request) =>
        \E path \in Paths :
            request.v.url = [origin |-> base_url.origin,
                             segs |-> WholePath(base_url) \o path.segs]

----------------------------------------------------------------------------
(* Claims about the GUI command layer, checked under SpecGui and FairGui *)

ConfigurationCommands == {"set_api_token", "is_configured", "clear_client"}

\* task t takes a step in which its command reads or writes the stored
\* client under the guard
Accesses(t) == task[t].pc = "holding" /\ task'[t].pc # "holding"

\* the command of task t has returned the error with this message
Failed(t, message) ==
    /\ task[t].pc = "done"
    /\ ~IsOk(task[t].result.v)
    /\ task[t].result.v.message = message

\* C21 (as stated): a client created by MindatClient::new(token) or
\* MindatClient::anonymous() reports base_url() equal to
\* "https://api.mindat.org/".
C21_AsStated ==
    IsSome(client) =>
        /\ client.v \in {MindatClient_anonymous} \cup
                        {MindatClient_new(tok) : tok \in TokenStrings}
        /\ as_str(client.v.base_url) = "https://api.mindat.org/"

\* C22: no client is stored initially; the stored client changes only in a
\* step of set_api_token, which stores a client (an anonymous one for the
\* empty token), or of clear_client, which stores none; is_configured
\* returns whether a client is stored; no other command, search_ima_minerals
\* included, changes the stored client.
C22_StoredClient ==
    /\ client = None
    /\ [][\A t \in 1..MaxTasks :
            /\ (Accesses(t) /\ task[t].cmd = "set_api_token") =>
                 /\ IsSome(client')
                 /\ client'.v.token = IF task[t].args.token = << >> THEN None
                                      ELSE Some(task[t].args.token)
            /\ (Accesses(t) /\ task[t].cmd = "clear_client") => client' = None
            /\ (Accesses(t) /\ task[t].cmd = "is_configured") =>
                 /\ task'[t].result = Some(Ok(IsSome(client)))
                 /\ client' = client
            /\ (task'[t] # task[t]
                  /\ ~(Accesses(t) /\ task[t].cmd \in {"set_api_token", "clear_client"})) =>
                 client' = client]_vars

\* is_configured has returned true, and another time false after a client
\* had been stored and cleared
C22_Witness ==
    /\ task[1].cmd = "is_configured" /\ task[1].pc = "done"
    /\ task[1].result = Some(Ok(TRUE))
    /\ task[2].cmd = "clear_client" /\ task[2].pc = "holding"

\* C23: an endpoint command other than search_ima_minerals that finds no
\* client stored returns an error, sends no request and leaves no client
\* stored (search_localities_by_gps may return its missing-filter error
\* before looking); search_ima_minerals finding no client stored sends its
\* request without an Authorization header.
C23_Unconfigured ==
    [][\A t \in 1..MaxTasks :
         /\ (Accesses(t) /\ client = None
               /\ task[t].cmd \notin ConfigurationCommands \cup {"search_ima_minerals"}) =>
              /\ task'[t].pc = "done"
              /\ ~IsOk(task'[t].result.v)
              /\ task'[t].request = None
              /\ client' = None
         /\ (task[t].pc = "idle" /\ task'[t].pc = "done") =>
              /\ ~IsOk(task'[t].result.v)
              /\ task'[t].request = None
              /\ client' = client
         /\ (Accesses(t) /\ client = None /\ task[t].cmd = "search_ima_minerals") =>
              /\ task'[t].pc = "awaiting"
              /\ IsSome(task'[t].request)
              /\ task'[t].request.v.headers.authorization = None
              /\ client' = None]_vars

\* get_mineral has returned the not-configured error while the request of
\* search_ima_minerals is in flight and no client is stored
C23_Witness ==
    /\ client = None
    /\ task[1].cmd = "get_mineral"
    /\ Failed(1, "Client not configured. Set an API token first.")
    /\ task[2].cmd = "search_ima_minerals" /\ task[2].pc = "awaiting"

\* C24 (as stated): search_localities_by_gps never sends a localities
\* request that carries neither a country nor a txt filter, and returns the
\* missing-filter error, sending nothing, when no usable filter is given.
C24_AsStated ==
    \A t \in 1..MaxTasks :
        (task[t].cmd = "search_localities_by_gps" /\ IsSome(task[t].request)) =>
            \E i \in 1..Len(task[t].request.v.query) :
                task[t].request.v.query[i][1] \in {"country", "txt"}

\* the client whose token a command reading the stored client now would use
Read(t) ==
    IF IsNone(client) /\ task[t].cmd = "search_ima_minerals"
    THEN MindatClient_anonymous ELSE client.v

\* C25: the request of an endpoint command carries the headers of the
\* client that was stored when the command read the state; while the
\* request is in flight no step of another command, set_api_token and
\* clear_client included, changes or fails it; so a command that reads the
\* state after a replacement uses the new client.
C25_RequestKeepsItsClient ==
    [][\A t \in 1..MaxTasks :
         /\ (Accesses(t) /\ task'[t].pc = "awaiting") =>
              /\ IsSome(task'[t].request)
              /\ Ok(task'[t].request.v.headers) = headers(Read(t).token)
         /\ (task[t].pc = "awaiting" /\ client' # client) => task'[t] = task[t]
         /\ (task[t].pc = "awaiting" /\ task'[t] # task[t]) =>
              /\ task'[t].pc = "done"
              /\ task'[t].request = task[t].request]_vars

\* a request with the token "tk" is in flight while the other task has
\* replaced the stored client by an anonymous one
C25_Witness ==
    /\ task[1].pc = "awaiting"
    /\ task[1].request.v.headers.authorization = Some(TokenPrefix \o <<116, 107>>)
    /\ task[2].cmd = "set_api_token" /\ task[2].pc = "done"
    /\ client = Some(MindatClient_anonymous)

\* C26: no task whose request is in flight holds the lock, and every
\* set_api_token, clear_client and is_configured call that has been invoked
\* completes, whatever requests stay in flight.
C26_LockNotHeldAcrossRequest ==
    /\ [](\A t \in 1..MaxTasks :
            task[t].pc = "awaiting" => t \notin lock.readers \cup lock.writer)
    /\ \A t \in 1..MaxTasks :
         (task[t].cmd \in ConfigurationCommands /\ task[t].pc \in {"waiting", "holding"})
            ~> (task[t].pc = "done")

\* clear_client has completed while the request of the other task is in
\* flight
C26_Witness ==
    /\ task[1].pc = "awaiting"
    /\ task[2].cmd = "clear_client" /\ task[2].pc = "done"
    /\ client = None

----------------------------------------------------------------------------
(* Further claims about the executor, the query models, the envelopes and  *)
(* the decoders                                                             *)

\* C27: a call on a client whose token cannot be a header value returns
\* InvalidParameter and sends no request when the URL can be built; a call
\* whose URL cannot be built returns the Url error and sends no request,
\* whatever the token is.
C27_InvalidToken ==
    (pc = "done" /\ IsSome(result)) =>
        /\ (base_url.base /\ IsSome(token) /\ ~HeaderValueOk(TokenPrefix \o token.v)) =>
             /\ result.v = ErrInvalidParameter("Invalid token format")
             /\ nsent = 0
             /\ request = None
        /\ ~base_url.base =>
             /\ result.v = ErrUrl
             /\ nsent = 0
             /\ request = None

\* a call on a client with the token "t\n" and a base URL that cannot be
\* joined to has returned the Url error
C27_Witness ==
    /\ pc = "done"
    /\ token = Some(<<116, 10>>)
    /\ ~base_url.base
    /\ result = Some(ErrUrl)

\* every call of a builder setter of the family on the model q, with two
\* arguments for each setter: the setter, which argument, the fields it
\* names, and the model it returns
SetterCalls(fam, q) ==
    LET Call1(setter, fields, to) == [setter |-> setter, k |-> 1, fields |-> fields, to |-> to]
        Call2(setter, fields, to) == [setter |-> setter, k |-> 2, fields |-> fields, to |-> to]
    IN  CASE fam = "geomaterials" ->
            { Call1("name", {"name"}, GeomaterialsQuery_name(q, "")),
              Call2("name", {"name"}, GeomaterialsQuery_name(q, "quartz")),
              Call1("search", {"q"}, GeomaterialsQuery_search(q, "")),
              Call2("search", {"q"}, GeomaterialsQuery_search(q, "quartz")),
              Call1("ima_approved", {"ima"}, GeomaterialsQuery_ima_approved(q, FALSE)),
              Call2("ima_approved", {"ima"}, GeomaterialsQuery_ima_approved(q, TRUE)),
              Call1("entry_types", {"entrytype"}, GeomaterialsQuery_entry_types(q, <<0>>)),
              Call2("entry_types", {"entrytype"}, GeomaterialsQuery_entry_types(q, <<0, 2>>)),
              Call1("with_elements", {"elements_inc"},
                    GeomaterialsQuery_with_elements(q, "")),
              Call2("with_elements", {"elements_inc"},
                    GeomaterialsQuery_with_elements(q, "Si,O")),
              Call1("without_elements", {"elements_exc"},
                    GeomaterialsQuery_without_elements(q, "")),
              Call2("without_elements", {"elements_exc"},
                    GeomaterialsQuery_without_elements(q, "Si,O")),
              Call1("crystal_systems", {"crystal_system"},
                    GeomaterialsQuery_crystal_systems(q, <<"Triclinic">>)),
              Call2("crystal_systems", {"crystal_system"},
                    GeomaterialsQuery_crystal_systems(q, <<"Triclinic", "Hexagonal">>)),
              Call1("hardness_range", {"hardness_min", "hardness_max"},
                    GeomaterialsQuery_hardness_range(q, 60, 70)),
              Call2("hardness_range", {"hardness_min", "hardness_max"},
                    GeomaterialsQuery_hardness_range(q, 70, 60)),
              Call1("density_range", {"density_min", "density_max"},
                    GeomaterialsQuery_density_range(q, 60, 70)),
              Call2("density_range", {"density_min", "density_max"},
                    GeomaterialsQuery_density_range(q, 70, 60)),
              Call1("select_fields", {"fields"}, GeomaterialsQuery_select_fields(q, "")),
              Call2("select_fields", {"fields"},
                    GeomaterialsQuery_select_fields(q, "id,name")),
              Call1("omit_fields", {"omit"}, GeomaterialsQuery_omit_fields(q, "")),
              Call2("omit_fields", {"omit"}, GeomaterialsQuery_omit_fields(q, "id,name")),
              Call1("expand_fields", {"expand"},
                    GeomaterialsQuery_expand_fields(q, <<"locality">>)),
              Call2("expand_fields", {"expand"},
                    GeomaterialsQuery_expand_fields(q, <<"locality", "minstats">>)),
              Call1("order_by", {"ordering"}, GeomaterialsQuery_order_by(q, "Name")),
              Call2("order_by", {"ordering"}, GeomaterialsQuery_order_by(q, "NameDesc")),
              Call1("page", {"page"}, GeomaterialsQuery_page(q, 1)),
              Call2("page", {"page"}, GeomaterialsQuery_page(q, 2)),
              Call1("page_size", {"page_size"}, GeomaterialsQuery_page_size(q, 0)),
              Call2("page_size", {"page_size"}, GeomaterialsQuery_page_size(q, 50)) }
          [] fam = "localities" ->
            { Call1("country", {"country"}, LocalitiesQuery_country(q, "")),
              Call2("country", {"country"}, LocalitiesQuery_country(q, "quartz")),
              Call1("name_contains", {"txt"}, LocalitiesQuery_name_contains(q, "")),
              Call2("name_contains", {"txt"}, LocalitiesQuery_name_contains(q, "quartz")),
              Call1("description_contains", {"description"},
                    LocalitiesQuery_description_contains(q, "")),
              Call2("description_contains", {"description"},
                    LocalitiesQuery_description_contains(q, "quartz")),
              Call1("with_elements", {"elements_inc"},
                    LocalitiesQuery_with_elements(q, "")),
              Call2("with_elements", {"elements_inc"},
                    LocalitiesQuery_with_elements(q, "Si,O")),
              Call1("without_elements", {"elements_exc"},
                    LocalitiesQuery_without_elements(q, "")),
              Call2("without_elements", {"elements_exc"},
                    LocalitiesQuery_without_elements(q, "Si,O")),
              Call1("select_fields", {"fields"}, LocalitiesQuery_select_fields(q, "")),
              Call2("select_fields", {"fields"},
                    LocalitiesQuery_select_fields(q, "id,name")),
              Call1("omit_fields", {"omit"}, LocalitiesQuery_omit_fields(q, "")),
              Call2("omit_fields", {"omit"}, LocalitiesQuery_omit_fields(q, "id,name")),
              Call1("expand_fields", {"expand"},
                    LocalitiesQuery_expand_fields(q, <<"locality">>)),
              Call2("expand_fields", {"expand"},
                    LocalitiesQuery_expand_fields(q, <<"locality", "minstats">>)),
              Call1("cursor", {"cursor"}, LocalitiesQuery_cursor(q, "")),
              Call2("cursor", {"cursor"}, LocalitiesQuery_cursor(q, "quartz")) }
          [] fam = "minerals_ima" ->
            { Call1("search", {"q"}, ImaMineralsQuery_search(q, "")),
              Call2("search", {"q"}, ImaMineralsQuery_search(q, "quartz")),
              Call1("select_fields", {"fields"}, ImaMineralsQuery_select_fields(q, "")),
              Call2("select_fields", {"fields"},
                    ImaMineralsQuery_select_fields(q, "id,name")),
              Call1("omit_fields", {"omit"}, ImaMineralsQuery_omit_fields(q, "")),
              Call2("omit_fields", {"omit"}, ImaMineralsQuery_omit_fields(q, "id,name")),
              Call1("expand_fields", {"expand"},
                    ImaMineralsQuery_expand_fields(q, <<"locality">>)),
              Call2("expand_fields", {"expand"},
                    ImaMineralsQuery_expand_fields(q, <<"locality", "minstats">>)),
              Call1("page", {"page"}, ImaMineralsQuery_page(q, 1)),
              Call2("page", {"page"}, ImaMineralsQuery_page(q, 2)),
              Call1("page_size", {"page_size"}, ImaMineralsQuery_page_size(q, 0)),
              Call2("page_size", {"page_size"}, ImaMineralsQuery_page_size(q, 50)) }

\* the model the same call (same setter, same argument) returns on q
Again(fam, call, q) ==
    (CHOOSE c \in SetterCalls(fam, q) : c.setter = call.setter /\ c.k = call.k).to

\* C28: on every model that has been built, each setter returns a model
\* that has a value in every field the setter names and equals the given
\* model in every other field; on a model built by at most one setter call,
\* two setters naming different fields give the same model in either order,
\* and a setter called twice gives the model of its last call alone.
C28_SettersFrame ==
    IsSome(query) =>
        LET q == query.v
            calls == SetterCalls(family, q)
        IN  /\ \A a \in calls :
                 /\ a.fields \subseteq DOMAIN q
                 /\ \A f \in DOMAIN q :
                      IF f \in a.fields THEN IsSome(a.to[f]) ELSE a.to[f] = q[f]
            /\ nset <= 1 =>
                 \A a, b \in calls :
                    /\ a.fields \cap b.fields = {} =>
                         Again(family, b, a.to) = Again(family, a, b.to)
                    /\ a.setter = b.setter => Again(family, b, a.to) = b.to

\* name("quartz") and then page(2) have been called on a new
\* GeomaterialsQuery
C28_Witness ==
    /\ family = "geomaterials"
    /\ nset = 2
    /\ query = Some(GeomaterialsQuery_page(
                        GeomaterialsQuery_name(GeomaterialsQuery_new, "quartz"), 2))

\* C29 (as stated): total_pages returns a value whenever count is present,
\* for every page_size argument, 0 included.
C29_AsStated ==
    (Accessed("total_pages") /\ IsSome(envelope.v.count)) =>
        /\ returned.v.value # Panic
        /\ IsSome(returned.v.value)

\* C30 (as stated): an integer decoder gives for a native integer n what it
\* gives for the decimal string of n.
C30_AsStated ==
    (Decoded({"deserialize_optional_i32", "deserialize_optional_i16",
              "deserialize_optional_u32"}) /\ JType(raw.v) = "int") =>
        returned.v.value =
            DeserializeWith(returned.v.fn, returned.v.arg,
                            Json("string", IntPieces(JValue(raw.v))))


=============================================================================
